---- MODULE Spec2Model ----
(***************************************************************************)
(* Verification model of the workflow platform core:                       *)
(*   - the Session Store  (backend/state/session-manager.ts)               *)
(*   - the execute entry point's session handling (api/routes/workflows.ts)*)
(*   - the Execution Engine (backend/execution-engine/executor.ts)         *)
(*                                                                         *)
(* The Session Store keeps JavaScript object references in one Map: the    *)
(* primary key session:<id> and the index key session:msisdn:<m>:<type>    *)
(* hold the SAME object.  The model therefore keeps the session objects    *)
(* (objs) apart from the index, whose entries are references to them.     *)
(***************************************************************************)
EXTENDS Integers, Sequences, FiniteSets, TLC

\* ------------------------------------------------------------------ bounds
MaxTime == 2        \* last clock reading explored
MaxStack == 4       \* call-stack frames available to the mutual recursion
MaxAttempts == 2    \* largest maxAttempts of a retry policy explored
                    \* getSession <-> endSession before RangeError

\* 3600 s in the source; the model clock counts abstract ticks
defaultTtl == 1

\* session ids are uuidv4() values: every createSession gets an unused one,
\* so one session object exists per id and the id serves as the reference
SessionIds == {"s1", "s2"}
Msisdns == {"m1"}
Types == {"ussd", "voice"}
Keys == {"k1", "k2"}
Vals == {1, 2}

Null == ""          \* null / undefined reference
NoExpiry == -1      \* session.expiresAt not supplied by the caller

\* Record<string, unknown> values over Keys
EmptyData == [k \in {} |-> 0]
\* data a caller passes to createSession / updateSession
InitDatas == {EmptyData}
PartialDatas == {[k \in {"k1"} |-> 2], [k \in {"k2"} |-> 1]}

VARIABLES
    now,      \* wall clock (new Date())
    redis,    \* [objs, index]: the session objects under session:<id> and
              \* the references under session:msisdn:<msisdn>:<type>
    last,     \* the last Session Store call and its response
    calls,    \* in-flight asynchronous Session Store calls (SpecConc)
    env,      \* one execute() call: compiled graph, options, executor registry
    ex,       \* its ExecutionState and the position of the engine in it
    executionLogs,  \* InMemoryLogger.executionLogs, in the order of insertion
    heap      \* the objects two execute() calls may both hold, by reference

storeVars == <<now, redis, last, calls, executionLogs, heap>>
execVars == <<env, ex>>
vars == <<now, redis, last, calls, env, ex, executionLogs, heap>>

\* no object is shared
NoHeap == <<>>

\* new Map()
NoExecutionLogs == <<>>

\* ------------------------------------------------------- Session Store ---
\* { ...a, ...b }
mergeData(a, b) ==
    [k \in (DOMAIN a) \cup (DOMAIN b) |-> IF k \in DOMAIN b THEN b[k] ELSE a[k]]

\* session.expiresAt && new Date(session.expiresAt) < new Date()
isExpired(s, t) == s.expiresAt # NoExpiry /\ s.expiresAt < t

\* new Map()
EmptyStore ==
    [objs |-> [s \in {} |-> 0],
     index |-> [p \in Msisdns \X Types |-> Null]]

\* this.redis.get(`session:${sessionId}`)
primaryGet(st, sessionId) ==
    IF sessionId \in DOMAIN st.objs THEN sessionId ELSE Null

Ret(st, r) == [st |-> st, ret |-> r, err |-> "none"]
Throw(st, e) == [st |-> st, ret |-> Null, err |-> e]

\* this.redis.set / delete of the index key, guarded by `if (session.msisdn)`
indexSet(st, s, ref) ==
    IF s.msisdn # "" THEN [st.index EXCEPT ![<<s.msisdn, s.type>>] = ref]
    ELSE st.index

\* createSession that forgets the MSISDN index
createSession_noIndex(st, sess, t) ==
    Ret([objs |-> [s \in DOMAIN st.objs \cup {sess.sessionId} |->
                     IF s = sess.sessionId
                     THEN [sessionId |-> sess.sessionId, type |-> sess.type,
                           msisdn |-> sess.msisdn, data |-> sess.data,
                           createdAt |-> t, lastActivityAt |-> t,
                           expiresAt |-> t + defaultTtl, isActive |-> TRUE]
                     ELSE st.objs[s]],
         index |-> st.index],
        sess.sessionId)

\* createSession: no conflict check, both keys are set to the new object
createSession(st, sess, t) ==
    LET fullSession ==
            [sessionId |-> sess.sessionId,
             type |-> sess.type,
             msisdn |-> sess.msisdn,
             data |-> sess.data,
             createdAt |-> t,
             lastActivityAt |-> t,
             expiresAt |-> IF sess.expiresAt # NoExpiry
                           THEN sess.expiresAt ELSE t + defaultTtl,
             isActive |-> TRUE]
    IN Ret([objs |-> [s \in DOMAIN st.objs \cup {sess.sessionId} |->
                        IF s = sess.sessionId THEN fullSession ELSE st.objs[s]],
            index |-> indexSet(st, fullSession, sess.sessionId)],
           sess.sessionId)

\* endSession after `await this.getSession(...)` returned the reference ref
endCommit(st, ref, t) ==
    [objs |-> [st.objs EXCEPT ![ref].isActive = FALSE,
                              ![ref].lastActivityAt = t],
     index |-> indexSet(st, st.objs[ref], Null)]

\* updateSession after the await
updateCommit(st, ref, data, t) ==
    [objs |-> [st.objs EXCEPT ![ref].data = mergeData(st.objs[ref].data, data),
                              ![ref].lastActivityAt = t],
     index |-> indexSet(st, st.objs[ref], ref)]

\* touchSession after the await
touchCommit(st, ref, t) ==
    [objs |-> [st.objs EXCEPT ![ref].lastActivityAt = t],
     index |-> st.index]

RECURSIVE getSession(_, _, _, _)
RECURSIVE endSession(_, _, _, _)

\* getSession: does not look at isActive; an expired record is handed to
\* endSession, which itself starts with getSession.  d is the number of
\* stack frames left; the synchronous recursion ends in a RangeError.
getSession(st, sessionId, t, d) ==
    IF d = 0 THEN Throw(st, "RangeError")
    ELSE LET ref == primaryGet(st, sessionId)
         IN IF ref = Null THEN Ret(st, Null)
            ELSE IF isExpired(st.objs[ref], t)
                 THEN LET e == endSession(st, sessionId, t, d - 1)
                      IN IF e.err # "none" THEN e ELSE Ret(e.st, Null)
                 ELSE Ret(st, ref)

endSession(st, sessionId, t, d) ==
    IF d = 0 THEN Throw(st, "RangeError")
    ELSE LET g == getSession(st, sessionId, t, d - 1)
         IN IF g.err # "none" THEN g
            ELSE IF g.ret = Null THEN Ret(g.st, Null)
            ELSE Ret(endCommit(g.st, g.ret, t), Null)

updateSession(st, sessionId, data, t, d) ==
    LET g == getSession(st, sessionId, t, d - 1)
    IN IF g.err # "none" THEN g
       ELSE IF g.ret = Null THEN Throw(g.st, "not_found")
       ELSE Ret(updateCommit(g.st, g.ret, data, t), Null)

touchSession(st, sessionId, t, d) ==
    LET g == getSession(st, sessionId, t, d - 1)
    IN IF g.err # "none" THEN g
       ELSE IF g.ret = Null THEN Ret(g.st, Null)
       ELSE Ret(touchCommit(g.st, g.ret, t), Null)

getActiveSessionByMsisdn(st, msisdn, type, t, d) ==
    LET ref == st.index[<<msisdn, type>>]
    IN IF ref = Null \/ ~st.objs[ref].isActive THEN Ret(st, Null)
       ELSE IF isExpired(st.objs[ref], t)
            THEN LET e == endSession(st, st.objs[ref].sessionId, t, d - 1)
                 IN IF e.err # "none" THEN e ELSE Ret(e.st, Null)
            ELSE Ret(st, ref)

\* cleanupExpiredSessions: walks the session:<id> keys; the first rejection
\* of endSession rejects the sweep.  acc carries [st, cleaned, err].
RECURSIVE cleanupLoop(_, _, _, _)
cleanupLoop(acc, todo, t, d) ==
    IF todo = {} \/ acc.err # "none" THEN acc
    ELSE LET sid == CHOOSE s \in todo : TRUE
         IN IF isExpired(acc.st.objs[sid], t)
            THEN LET e == endSession(acc.st, acc.st.objs[sid].sessionId, t, d - 1)
                 IN IF e.err # "none"
                    THEN [acc EXCEPT !.err = e.err]
                    ELSE cleanupLoop([st |-> e.st, cleaned |-> acc.cleaned + 1,
                                      err |-> "none"], todo \ {sid}, t, d)
            ELSE cleanupLoop(acc, todo \ {sid}, t, d)

cleanupExpiredSessions(st, t, d) ==
    cleanupLoop([st |-> st, cleaned |-> 0, err |-> "none"], DOMAIN st.objs, t, d)

\* ------------------------------------------------ compiled graphs -------
\* Node Catalog entries the engine reads (shared/node-definitions)
NoRetry == [present |-> FALSE, maxAttempts |-> 0, initialDelayMs |-> 0,
            backoffMultiplier |-> 0, maxDelayMs |-> 0,
            hasRetryableErrors |-> FALSE, retryableErrors |-> {}]

\* SEND_SMS defaultRetry
SendSmsRetry == [present |-> TRUE, maxAttempts |-> 3, initialDelayMs |-> 1000,
                 backoffMultiplier |-> 2, maxDelayMs |-> 0,
                 hasRetryableErrors |-> TRUE,
                 retryableErrors |-> {"RATE_LIMIT", "NETWORK_ERROR"}]

TriggerNodeTypes == {"SMS_RECEIVED", "USSD_SESSION_START", "INCOMING_CALL",
                     "PAYMENT_CALLBACK", "SCHEDULED", "HTTP_WEBHOOK"}

nodeDefinition(type) ==
    [requiresSession |-> type \in {"USSD_SESSION_START", "INCOMING_CALL",
                                   "SEND_USSD_RESPONSE", "SESSION_READ",
                                   "SESSION_WRITE", "SESSION_END"},
     endsSession |-> type = "SESSION_END",
     defaultRetry |-> IF type = "SEND_SMS" THEN SendSmsRetry ELSE NoRetry,
     defaultTimeout |-> IF type = "SEND_USSD_RESPONSE" THEN 10000
                        ELSE IF type \in {"CONDITION", "SESSION_READ",
                                          "SESSION_WRITE"} THEN 1000
                        ELSE IF type = "SESSION_END" THEN 5000
                        ELSE 30000,
     outputHandles |-> IF type = "CONDITION" THEN {"true", "false"}
                       ELSE IF type \in TriggerNodeTypes THEN {"default"}
                       ELSE IF type = "SESSION_END" THEN {}
                       ELSE {"success", "error"}]

\* a node of a workflow description
SpecNode(id, type, retry, disabled) ==
    [id |-> id, type |-> type, retry |-> retry, disabled |-> disabled,
     timeout |-> 0]
\* a node that carries its own timeout
TimedNode(id, type, retry, timeout) ==
    [id |-> id, type |-> type, retry |-> retry, disabled |-> FALSE,
     timeout |-> timeout]
SpecEdge(source, target, sourceHandle) ==
    [source |-> source, target |-> target, sourceHandle |-> sourceHandle]

RECURSIVE selectSeq(_, _, _)
\* edges.filter(...) keeping the order of the description
selectSeq(edges, field, id) ==
    IF edges = <<>> THEN <<>>
    ELSE IF Head(edges)[field] = id
         THEN <<Head(edges)>> \o selectSeq(Tail(edges), field, id)
         ELSE selectSeq(Tail(edges), field, id)

RECURSIVE reverseSeq(_)
reverseSeq(q) == IF q = <<>> THEN <<>> ELSE Append(reverseSeq(Tail(q)), Head(q))

RECURSIVE visit(_, _, _)
RECURSIVE visitTargets(_, _, _)
\* topologicalSort.visit: depth-first, post-order; cycle stands for the throw
visit(nodes, nodeId, s) ==
    IF s.cycle THEN s
    ELSE IF nodeId \in s.visiting THEN [s EXCEPT !.cycle = TRUE]
    ELSE IF nodeId \in s.visited THEN s
    ELSE LET s1 == [s EXCEPT !.visiting = @ \cup {nodeId}]
             s2 == IF nodeId \in DOMAIN nodes
                   THEN visitTargets(nodes, nodes[nodeId].outgoingEdges, s1)
                   ELSE s1
         IN IF s2.cycle THEN s2
            ELSE [s2 EXCEPT !.visiting = @ \ {nodeId},
                            !.visited = @ \cup {nodeId},
                            !.result = Append(@, nodeId)]

visitTargets(nodes, edges, s) ==
    IF edges = <<>> \/ s.cycle THEN s
    ELSE visitTargets(nodes, Tail(edges), visit(nodes, Head(edges).target, s))

topologicalSort_noReverse(nodes, startNodeId) ==
    LET s == visit(nodes, startNodeId,
                   [visited |-> {}, visiting |-> {}, result |-> <<>>,
                    cycle |-> FALSE])
    IN [cycle |-> s.cycle, order |-> s.result]
topologicalSort(nodes, startNodeId) ==
    LET s == visit(nodes, startNodeId,
                   [visited |-> {}, visiting |-> {}, result |-> <<>>,
                    cycle |-> FALSE])
    IN [cycle |-> s.cycle, order |-> reverseSeq(s.result)]

DefaultNodeTimeoutMs == 30000

\* buildExecutionGraph
buildExecutionGraph(spec) ==
    LET ids == {spec.nodes[i].id : i \in DOMAIN spec.nodes}
        nodeOf(id) == spec.nodes[CHOOSE i \in DOMAIN spec.nodes : spec.nodes[i].id = id]
        nodes == [id \in ids |->
                    LET n == nodeOf(id)
                        def == nodeDefinition(n.type)
                    IN [id |-> id,
                        type |-> n.type,
                        retry |-> IF n.retry.present THEN n.retry ELSE def.defaultRetry,
                        timeout |-> IF n.timeout # 0 THEN n.timeout
                                    ELSE IF def.defaultTimeout # 0
                                         THEN def.defaultTimeout
                                    ELSE DefaultNodeTimeoutMs,
                        disabled |-> n.disabled,
                        incomingEdges |-> selectSeq(spec.edges, "target", id),
                        outgoingEdges |-> selectSeq(spec.edges, "source", id),
                        requiresSession |-> def.requiresSession,
                        endsSession |-> def.endsSession]]
        sorted == topologicalSort(nodes, spec.trigger)
    IN [trigger |-> spec.trigger,
        nodes |-> nodes,
        executionOrder |-> sorted.order,
        requiresSession |-> \E id \in ids : nodes[id].requiresSession,
        hasSessionEnd |-> \E id \in ids : nodes[id].endsSession,
        hasCycles |-> sorted.cycle]

\* retry policies given on nodes of the descriptions below
OneRetry == [present |-> TRUE, maxAttempts |-> 1, initialDelayMs |-> 1000,
             backoffMultiplier |-> 2, maxDelayMs |-> 1500,
             hasRetryableErrors |-> FALSE, retryableErrors |-> {}]

RateLimitRetry == [present |-> TRUE, maxAttempts |-> 1, initialDelayMs |-> 1000,
                   backoffMultiplier |-> 2, maxDelayMs |-> 1500,
                   hasRetryableErrors |-> TRUE, retryableErrors |-> {"RATE_LIMIT"}]

\* trigger -> condition -> send_sms on the true and on the false branch
ConditionWorkflow ==
    [trigger |-> "t",
     nodes |-> <<SpecNode("t", "SMS_RECEIVED", NoRetry, FALSE),
                 SpecNode("c", "CONDITION", NoRetry, FALSE),
                 SpecNode("a", "SEND_USSD_RESPONSE", NoRetry, FALSE),
                 SpecNode("b", "SEND_SMS", OneRetry, FALSE)>>,
     edges |-> <<SpecEdge("t", "c", ""), SpecEdge("c", "a", "true"),
                 SpecEdge("c", "b", "false")>>]

\* A -> B, A -> C, B -> C behind the trigger, C ends the session
DiamondWorkflow ==
    [trigger |-> "t",
     nodes |-> <<SpecNode("t", "USSD_SESSION_START", NoRetry, FALSE),
                 SpecNode("a", "SEND_SMS", NoRetry, FALSE),
                 SpecNode("b", "SEND_USSD_RESPONSE", NoRetry, TRUE),
                 SpecNode("c", "SESSION_END", NoRetry, FALSE)>>,
     edges |-> <<SpecEdge("t", "a", ""), SpecEdge("a", "b", ""),
                 SpecEdge("a", "c", ""), SpecEdge("b", "c", "")>>]

\* a graph that has no node besides its trigger
TriggerOnlyWorkflow ==
    [trigger |-> "t",
     nodes |-> <<SpecNode("t", "SMS_RECEIVED", NoRetry, FALSE)>>,
     edges |-> <<>>]

\* the trigger feeds an action and a SESSION_END; the depth-first order puts
\* the SESSION_END before the action
EndFirstWorkflow ==
    [trigger |-> "t",
     nodes |-> <<SpecNode("t", "USSD_SESSION_START", NoRetry, FALSE),
                 SpecNode("a", "SEND_USSD_RESPONSE", NoRetry, FALSE),
                 SpecNode("c", "SESSION_END", NoRetry, FALSE)>>,
     edges |-> <<SpecEdge("t", "a", ""), SpecEdge("t", "c", "")>>]

\* retry policies a description may carry (RetryConfigSchema: maxAttempts
\* and maxDelayMs positive, initialDelayMs not negative); 0 stands for an
\* optional field that is absent
RetryPolicies ==
    {[present |-> TRUE, maxAttempts |-> m, initialDelayMs |-> i,
      backoffMultiplier |-> b, maxDelayMs |-> d,
      hasRetryableErrors |-> l # {}, retryableErrors |-> l] :
        m \in 1..MaxAttempts, i \in {1000, 2000}, b \in {0, 3},
        d \in {0, 1500}, l \in {{}, {"NETWORK_ERROR"}}}

\* trigger -> send_sms with its own retry policy and timeout
RetryWorkflow(policy) ==
    [trigger |-> "t",
     nodes |-> <<SpecNode("t", "SMS_RECEIVED", NoRetry, FALSE),
                 TimedNode("a", "SEND_SMS", policy, 1000)>>,
     edges |-> <<SpecEdge("t", "a", "")>>]

\* A -> C and A -> B behind the trigger: B runs between A and C and is not a
\* predecessor of C; A is retried once on any error, B and C only when the
\* provider limits the rate
FanOutWorkflow ==
    [trigger |-> "t",
     nodes |-> <<SpecNode("t", "SMS_RECEIVED", NoRetry, FALSE),
                 SpecNode("a", "SEND_SMS", OneRetry, FALSE),
                 SpecNode("b", "SEND_SMS", RateLimitRetry, FALSE),
                 SpecNode("c", "SEND_SMS", RateLimitRetry, FALSE)>>,
     edges |-> <<SpecEdge("t", "a", ""), SpecEdge("a", "c", ""),
                 SpecEdge("a", "b", "")>>]

Workflows ==
    {ConditionWorkflow, DiamondWorkflow, TriggerOnlyWorkflow, EndFirstWorkflow,
     FanOutWorkflow}
        \cup {RetryWorkflow(p) : p \in RetryPolicies}

\* ------------------------------------------------------------- actions ---
NoEnv == [graph |-> buildExecutionGraph(ConditionWorkflow),
          options |-> [enableRetries |-> FALSE, maxExecutionTimeMs |-> 0],
          registered |-> {}, triggerPayload |-> EmptyData, session |-> Null]
NoResult == [status |-> "none", errorCode |-> "", output |-> EmptyData,
             nodeResults |-> <<>>]
NoEx == [pc |-> "off", pos |-> 0, nodeResults |-> <<>>, variables |-> EmptyData,
         input |-> EmptyData, dispatched |-> <<>>, sleeps |-> <<>>,
         elapsed |-> 0, attempt |-> 0, delay |-> 0, inRetry |-> FALSE,
         result |-> NoResult, executionId |-> "", uuids |-> 0]

NoCall == [op |-> "none", sessionId |-> "", msisdn |-> "", type |-> "",
           ret |-> Null, err |-> "none", cleaned |-> 0]

Respond(op, sid, m, ty, r) ==
    /\ redis' = r.st
    /\ last' = [op |-> op, sessionId |-> sid, msisdn |-> m, type |-> ty,
                ret |-> r.ret, err |-> r.err, cleaned |-> 0]

\* the clock advances between calls
Tick ==
    /\ now < MaxTime
    /\ now' = now + 1
    /\ last' = NoCall
    /\ UNCHANGED <<redis, calls, execVars, executionLogs, heap>>

Create ==
    /\ \E sid \in SessionIds \ DOMAIN redis.objs, m \in Msisdns, ty \in Types,
          dt \in InitDatas, expiry \in {NoExpiry} :
          Respond("create", sid, m, ty,
                  createSession(redis, [sessionId |-> sid, type |-> ty,
                                        msisdn |-> m, data |-> dt,
                                        expiresAt |-> expiry, isActive |-> TRUE], now))
    /\ UNCHANGED <<now, calls, execVars, executionLogs, heap>>

Get ==
    /\ \E sid \in SessionIds :
          Respond("get", sid, "", "", getSession(redis, sid, now, MaxStack))
    /\ UNCHANGED <<now, calls, execVars, executionLogs, heap>>

FindActive ==
    /\ \E m \in Msisdns, ty \in Types :
          Respond("find_active", "", m, ty,
                  getActiveSessionByMsisdn(redis, m, ty, now, MaxStack))
    /\ UNCHANGED <<now, calls, execVars, executionLogs, heap>>

Update ==
    /\ \E sid \in SessionIds, dt \in PartialDatas :
          Respond("update", sid, "", "", updateSession(redis, sid, dt, now, MaxStack))
    /\ UNCHANGED <<now, calls, execVars, executionLogs, heap>>

Touch ==
    /\ \E sid \in SessionIds :
          Respond("touch", sid, "", "", touchSession(redis, sid, now, MaxStack))
    /\ UNCHANGED <<now, calls, execVars, executionLogs, heap>>

End ==
    /\ \E sid \in SessionIds :
          Respond("end", sid, "", "", endSession(redis, sid, now, MaxStack))
    /\ UNCHANGED <<now, calls, execVars, executionLogs, heap>>

Sweep ==
    /\ LET r == cleanupExpiredSessions(redis, now, MaxStack)
       IN /\ redis' = r.st
          /\ last' = [NoCall EXCEPT !.op = "sweep", !.err = r.err,
                                    !.cleaned = r.cleaned]
    /\ UNCHANGED <<now, calls, execVars, executionLogs, heap>>

\* POST /execute, "Get or create session": a request naming a session id
\* looks it up, any other request of a graph that requires a session creates
\* one under a fresh uuid for the subscriber of the trigger payload.
TriggerTypes == {"USSD_SESSION_START", "INCOMING_CALL"}

sessionTypeOf(triggerType) ==
    IF triggerType = "USSD_SESSION_START" THEN "ussd"
    ELSE IF triggerType = "INCOMING_CALL" THEN "voice"
    ELSE IF triggerType = "SMS_RECEIVED" THEN "sms"
    ELSE "payment"

getOrCreateSession(st, sessionId, requiresSession, triggerType, msisdn, uuid, t, d) ==
    IF sessionId # Null THEN getSession(st, sessionId, t, d - 1)
    ELSE IF requiresSession
         THEN createSession(st, [sessionId |-> uuid,
                                 type |-> sessionTypeOf(triggerType),
                                 msisdn |-> msisdn, data |-> EmptyData,
                                 expiresAt |-> NoExpiry, isActive |-> TRUE], t)
         ELSE Ret(st, Null)

ExecuteSession ==
    /\ \E sid \in SessionIds \cup {Null}, rq \in BOOLEAN, tt \in TriggerTypes,
          m \in Msisdns, uuid \in SessionIds :
          /\ (sid = Null /\ rq) => uuid \notin DOMAIN redis.objs
          /\ Respond(IF sid # Null THEN "get"
                     ELSE IF rq THEN "create" ELSE "execute",
                     IF sid # Null THEN sid ELSE IF rq THEN uuid ELSE "",
                     IF sid = Null /\ rq THEN m ELSE "",
                     IF sid = Null /\ rq THEN sessionTypeOf(tt) ELSE "",
                     getOrCreateSession(redis, sid, rq, tt, m, uuid, now, MaxStack))
    /\ UNCHANGED <<now, calls, execVars, executionLogs, heap>>

Init ==
    /\ now = 0
    /\ executionLogs = NoExecutionLogs
    /\ heap = NoHeap
    /\ redis = EmptyStore
    /\ last = NoCall
    /\ calls = <<>>
    /\ env = NoEnv
    /\ ex = NoEx

Next ==
    \/ Tick
    \/ Create
    \/ Get
    \/ FindActive
    \/ Update
    \/ Touch
    \/ End
    \/ Sweep
    \/ ExecuteSession

Spec == Init /\ [][Next]_vars

\* -------------------------------------------- concurrent callers (C9) ----
\* Every Session Store method is an async function: it runs to its first
\* await without interruption, and what follows the await runs later, after
\* any segments of other calls the event loop schedules in between.
\* updateSession, touchSession and endSession await getSession and then
\* write through the reference it returned.
ConcSession == "s1"
ConcDatas == {[k \in {"k1"} |-> 1], [k \in {"k1"} |-> 2], [k \in {"k2"} |-> 1]}

\* the store holding the one session of the callers, created at time t
ConcStoreAt(t) ==
    createSession(EmptyStore, [sessionId |-> ConcSession, type |-> "ussd",
                               msisdn |-> "m1", data |-> EmptyData,
                               expiresAt |-> NoExpiry, isActive |-> TRUE], t).st
ConcInitStore == ConcStoreAt(0)

NewCall(op, data) ==
    [op |-> op, sessionId |-> ConcSession, data |-> data, pc |-> "ready",
     ref |-> Null, err |-> "none", t0 |-> 0, raced |-> FALSE,
     snap |-> ConcInitStore.objs[ConcSession]]

CallKinds ==
    {NewCall("update", d) : d \in ConcDatas}
        \cup {NewCall("end", EmptyData), NewCall("touch", EmptyData)}

\* the store as written through by a value held across the await, were the
\* Map to hand out copies instead of references
awaitedSession_copy(st, c) == [st EXCEPT !.objs[c.ref] = c.snap]

\* `const session = await this.getSession(sessionId)`: session is the object
\* stored in the Map, so it shows every write made while the call waited
awaitedSession(st, c) == st

\* up to the await: the synchronous body of getSession
callStart(st, c, t, d) ==
    LET g == getSession(st, c.sessionId, t, d - 1)
    IN [st |-> g.st,
        call |-> [c EXCEPT !.pc = "awaiting", !.ref = g.ret, !.err = g.err,
                           !.t0 = t,
                           !.snap = IF g.ret # Null THEN g.st.objs[g.ret]
                                    ELSE c.snap]]

\* after the await
callResume(st, c, t) ==
    IF c.err # "none" THEN [st |-> st, call |-> [c EXCEPT !.pc = "done"]]
    ELSE IF c.ref = Null
         THEN [st |-> st,
               call |-> [c EXCEPT !.pc = "done",
                                  !.err = IF c.op = "update" THEN "not_found"
                                          ELSE "none"]]
    ELSE [st |-> IF c.op = "update"
                 THEN updateCommit(awaitedSession(st, c), c.ref, c.data, t)
                 ELSE IF c.op = "end"
                      THEN endCommit(awaitedSession(st, c), c.ref, t)
                      ELSE touchCommit(awaitedSession(st, c), c.ref, t),
          call |-> [c EXCEPT !.pc = "done"]]

CallStart ==
    /\ \E i \in DOMAIN calls :
          /\ calls[i].pc = "ready"
          /\ LET r == callStart(redis, calls[i], now, MaxStack)
                 other == {j \in DOMAIN calls \ {i} : calls[j].pc = "awaiting"}
             IN /\ redis' = r.st
                /\ calls' = [j \in DOMAIN calls |->
                               IF j = i THEN [r.call EXCEPT !.raced = other # {}]
                               ELSE IF j \in other
                                    THEN [calls[j] EXCEPT !.raced = TRUE]
                                    ELSE calls[j]]
    /\ UNCHANGED <<now, last, execVars, executionLogs, heap>>

CallResume ==
    /\ \E i \in DOMAIN calls :
          /\ calls[i].pc = "awaiting"
          /\ LET r == callResume(redis, calls[i], now)
             IN /\ redis' = r.st
                /\ calls' = [calls EXCEPT ![i] = r.call]
    /\ UNCHANGED <<now, last, execVars, executionLogs, heap>>

InitConc ==
    /\ now = 0
    /\ executionLogs = NoExecutionLogs
    /\ heap = NoHeap
    /\ redis = ConcInitStore
    /\ last = NoCall
    /\ calls \in [1..2 -> CallKinds]
    /\ env = NoEnv
    /\ ex = NoEx

NextConc ==
    \/ Tick
    \/ CallStart
    \/ CallResume

SpecConc == InitConc /\ [][NextConc]_vars

\* ------------------------------------------------- Execution Engine ------
\* One execute() call.  The engine is an async function: it runs without
\* interruption up to `await executor.execute(...)` or `await this.sleep(...)`
\* and continues when that promise settles.  ex.elapsed is Date.now() minus
\* startTime, in milliseconds.
Undefined == -1                 \* the value of a missing property
DefaultMaxExecutionTimeMs == 300000
HandlerDurations == {0, 2000}   \* time a handler may take, in milliseconds
FirstMessageId == 6             \* the provider numbers the messages it accepts

ATExecutors == {"SEND_SMS", "SEND_USSD_RESPONSE", "INITIATE_CALL", "PLAY_IVR",
                "COLLECT_DTMF", "REQUEST_PAYMENT", "REFUND_PAYMENT"}
\* registerExecutor: the executors createApp registers, and a registry that
\* also has handlers for the logic and state nodes of the workflows
Registries == {ATExecutors, ATExecutors \cup {"CONDITION", "SESSION_END"}}

OptionSets == [enableRetries : BOOLEAN, maxExecutionTimeMs : {0, 1500}]

Min(a, b) == IF a < b THEN a ELSE b

NodeResult(nodeId, status, output, code, type, attempt) ==
    [nodeId |-> nodeId, status |-> status, output |-> output,
     errorCode |-> code, errorType |-> type, attempt |-> attempt,
     durationMs |-> 0]

\* the results a registered handler may return for a node.  The handlers of
\* the telecom adapter return success or error, always with attempt 0 (a
\* handler is not told the attempt number), and SendUSSDResponseExecutor
\* answers SESSION_REQUIRED when the context has no session; a handler
\* registered for another node type may return any NodeExecutionResult.
HandlerOutcomes(node) ==
    IF node.type = "SEND_USSD_RESPONSE" /\ env.session = Null
    THEN {NodeResult(node.id, "error", EmptyData, "SESSION_REQUIRED", "permanent", 0)}
    ELSE {NodeResult(node.id, "success", o, "", "", 0) :
            o \in IF node.type = "CONDITION"
                  THEN {[k \in {"true"} |-> 1], [k \in {"false"} |-> 1]}
                  ELSE {[k \in {"messageId"} |-> FirstMessageId + Len(ex.dispatched)]}}
         \cup {NodeResult(node.id, "error", EmptyData, "NETWORK_ERROR", "transient", 0),
               NodeResult(node.id, "error", EmptyData, "SMS_SEND_ERROR", "permanent", 0)}
         \cup (IF node.type \in ATExecutors THEN {}
               ELSE {NodeResult(node.id, "timeout", EmptyData, "NODE_TIMEOUT",
                                "transient", 0)})

\* recordNodeResult: unshift, most recent first
recordNodeResult(nodeResults, result) ==
    [nodeResults EXCEPT ![result.nodeId] = <<result>> \o @]

RECURSIVE collectResults_all(_, _)
\* getAllNodeResults that reports every attempt of a node
collectResults_all(order, nodeResults) ==
    IF order = <<>> THEN <<>>
    ELSE nodeResults[Head(order)] \o collectResults_all(Tail(order), nodeResults)

RECURSIVE collectResults(_, _)
\* getAllNodeResults: results[0] of every node that has results, in
\* execution order
collectResults(order, nodeResults) ==
    IF order = <<>> THEN <<>>
    ELSE (IF Len(nodeResults[Head(order)]) > 0
          THEN <<nodeResults[Head(order)][1]>> ELSE <<>>)
         \o collectResults(Tail(order), nodeResults)

getAllNodeResults(e) == collectResults(env.graph.executionOrder, e.nodeResults)

RECURSIVE collectInput(_, _, _)
\* getNodeInput, the loop over node.incomingEdges
collectInput(edges, nodeResults, input) ==
    IF edges = <<>> THEN input
    ELSE LET edge == Head(edges)
             sourceResults == nodeResults[edge.source]
             lastResult == sourceResults[Len(sourceResults)]
             next ==
                IF Len(sourceResults) > 0 /\ lastResult.status = "success"
                THEN IF edge.sourceHandle # ""
                     THEN mergeData(input,
                            [k \in {edge.sourceHandle} |->
                               IF edge.sourceHandle \in DOMAIN lastResult.output
                               THEN lastResult.output[edge.sourceHandle]
                               ELSE Undefined])
                     ELSE mergeData(input, lastResult.output)
                ELSE input
         IN collectInput(Tail(edges), nodeResults, next)

getNodeInput(e, node) ==
    mergeData(collectInput(node.incomingEdges, e.nodeResults, EmptyData),
              e.variables)

\* executeWorkflow after the loop: "Determine final status"
finish(e) ==
    LET allResults == getAllNodeResults(e)
        errs == {i \in DOMAIN allResults : allResults[i].status = "error"}
        hasErrors == errs # {}
        firstErr == CHOOSE i \in errs : \A j \in errs : i <= j
        lastResult == allResults[Len(allResults)]
    IN [e EXCEPT !.pc = "done",
                 !.result =
                    [status |-> IF hasErrors THEN "failed" ELSE "completed",
                     errorCode |-> IF hasErrors THEN allResults[firstErr].errorCode
                                   ELSE "",
                     output |-> IF Len(allResults) > 0 /\ lastResult.status = "success"
                                THEN lastResult.output ELSE EmptyData,
                     nodeResults |-> allResults]]

\* the catch block of execute()
executeCatch(e) ==
    [e EXCEPT !.pc = "done",
              !.result = [status |-> "failed", errorCode |-> "EXECUTION_ERROR",
                          output |-> EmptyData, nodeResults |-> <<>>]]

\* the loop without its break: the walk goes on behind a SESSION_END
checkEndsSession_noBreak(e, node) ==
    [e EXCEPT !.pc = "loop", !.pos = @ + 1, !.inRetry = FALSE]

\* executeWorkflow: "Check if execution should stop", then the next node
checkEndsSession(e, node) ==
    IF node.endsSession THEN finish([e EXCEPT !.inRetry = FALSE])
    ELSE [e EXCEPT !.pc = "loop", !.pos = @ + 1, !.inRetry = FALSE]

\* handleRetry: head of `for (attempt = 1; attempt <= maxAttempts; ...)`
retryLoopHead(e, node) ==
    LET results == e.nodeResults[node.id]
    IN IF e.attempt > node.retry.maxAttempts THEN checkEndsSession(e, node)
       ELSE IF Len(results) = 0 \/ results[1].status # "error"
            THEN checkEndsSession(e, node)
       ELSE IF node.retry.hasRetryableErrors
                /\ results[1].errorCode \notin node.retry.retryableErrors
            THEN checkEndsSession(e, node)
       ELSE [e EXCEPT !.pc = "sleep",
                      !.sleeps = Append(@, [nodeId |-> node.id,
                                            attempt |-> e.attempt,
                                            delay |-> e.delay])]

\* what follows `state = await this.executeStep(...)`
afterStep(e, node) ==
    LET results == e.nodeResults[node.id]
        top == results[1]
        multiplier == IF node.retry.backoffMultiplier = 0 THEN 2
                      ELSE node.retry.backoffMultiplier
    IN IF ~e.inRetry
       THEN IF Len(results) > 0 /\ top.status = "error" /\ env.options.enableRetries
            THEN IF ~node.retry.present THEN checkEndsSession(e, node)
                 ELSE retryLoopHead([e EXCEPT !.inRetry = TRUE, !.attempt = 1,
                                              !.delay = node.retry.initialDelayMs],
                                    node)
            ELSE checkEndsSession(e, node)
       ELSE IF Len(results) > 0 /\ top.status = "success"
            THEN checkEndsSession(e, node)
            ELSE retryLoopHead(
                    [e EXCEPT !.attempt = @ + 1,
                              !.delay = IF node.retry.maxDelayMs = 0
                                        THEN e.delay * multiplier
                                        ELSE Min(e.delay * multiplier,
                                                 node.retry.maxDelayMs)],
                    node)

\* executeStep that calls the handler once for every incoming edge
beginStep_perEdge(e, node, attempt) ==
    IF node.disabled
    THEN afterStep([e EXCEPT !.nodeResults =
                       recordNodeResult(@, NodeResult(node.id, "skipped", EmptyData,
                                                      "", "", attempt))],
                   node)
    ELSE IF node.type \notin env.registered THEN executeCatch(e)
    ELSE [e EXCEPT !.pc = "handler", !.attempt = attempt,
                   !.dispatched = @ \o [k \in DOMAIN node.incomingEdges |->
                                           [nodeId |-> node.id,
                                            attempt |-> attempt]]]

\* executeStep up to the call of the handler
beginStep(e, node, attempt) ==
    IF node.disabled
    THEN afterStep([e EXCEPT !.nodeResults =
                       recordNodeResult(@, NodeResult(node.id, "skipped", EmptyData,
                                                      "", "", attempt))],
                   node)
    ELSE IF node.type \notin env.registered THEN executeCatch(e)
    ELSE [e EXCEPT !.pc = "handler", !.attempt = attempt,
                   !.dispatched = Append(@, [nodeId |-> node.id,
                                             attempt |-> attempt])]

\* the catch block of executeStep
thrownResult(e, node) ==
    NodeResult(node.id, "error", EmptyData, "NODE_EXECUTION_ERROR", "permanent",
               e.attempt)

\* executeStep that copies the output of every result into the variables
endStep_mergeAlways(e, node, result, duration) ==
    LET nodeKey == "node_" \o node.id
    IN afterStep(
          [e EXCEPT !.nodeResults =
                        recordNodeResult(@, [result EXCEPT !.durationMs = duration]),
                    !.variables =
                        mergeData(mergeData(@, result.output),
                                  [k \in {nodeKey} |-> result.output]),
                    !.elapsed = @ + duration],
          node)

\* executeStep from the handler's answer on
endStep(e, node, result, duration) ==
    LET nodeKey == "node_" \o node.id
    IN afterStep(
          [e EXCEPT !.nodeResults =
                        recordNodeResult(@, [result EXCEPT !.durationMs = duration]),
                    !.variables =
                        IF result.status = "success"
                        THEN mergeData(mergeData(@, result.output),
                                       [k \in {nodeKey} |-> result.output])
                        ELSE @,
                    !.elapsed = @ + duration],
          node)

\* state.graph.nodes.get(nodeId) for the node the loop of e stands at
nodeAt(e) == env.graph.nodes[env.graph.executionOrder[e.pos]]
currentNode == nodeAt(ex)

\* uuidv4(): an identifier that no earlier call has returned; issued counts
\* the identifiers handed out so far
uuidv4(issued) == "uuid" \o ToString(issued + 1)

\* execute(): context and state are built, variables = { ...triggerPayload }
ExecStart ==
    /\ ex.pc = "ready"
    /\ ex' = [ex EXCEPT !.pc = "loop", !.pos = 1,
                        !.variables = env.triggerPayload,
                        !.executionId = uuidv4(ex.uuids),
                        !.uuids = @ + 1]
    /\ UNCHANGED <<storeVars, env>>

\* one iteration of `for (const nodeId of state.graph.executionOrder)` up to
\* its first await, or the code after the loop
loopIteration(e) ==
    LET maxExecutionTime ==
            IF env.options.maxExecutionTimeMs = 0 THEN DefaultMaxExecutionTimeMs
            ELSE env.options.maxExecutionTimeMs
    IN IF e.pos > Len(env.graph.executionOrder) THEN finish(e)
       ELSE IF e.elapsed > maxExecutionTime
            THEN [e EXCEPT !.pc = "done",
                           !.result = [status |-> "failed",
                                       errorCode |-> "EXECUTION_TIMEOUT",
                                       output |-> EmptyData,
                                       nodeResults |-> getAllNodeResults(e)]]
       ELSE IF env.graph.executionOrder[e.pos] \notin DOMAIN env.graph.nodes
            THEN [e EXCEPT !.pos = @ + 1]
       ELSE IF env.graph.executionOrder[e.pos] = env.graph.trigger
            THEN [e EXCEPT !.pos = @ + 1]
       ELSE beginStep([e EXCEPT !.input = getNodeInput(e, nodeAt(e)),
                                !.inRetry = FALSE],
                      nodeAt(e), 0)

LoopStep ==
    /\ ex.pc = "loop"
    /\ ex' = loopIteration(ex)
    /\ UNCHANGED <<storeVars, env>>

\* the handler's promise settles with a result
HandlerReturns ==
    /\ ex.pc = "handler"
    /\ \E outcome \in HandlerOutcomes(currentNode), duration \in HandlerDurations :
          ex' = endStep(ex, currentNode, outcome, duration)
    /\ UNCHANGED <<storeVars, env>>

\* the handler throws or its promise rejects
HandlerThrows ==
    /\ ex.pc = "handler"
    /\ \E duration \in HandlerDurations :
          ex' = endStep(ex, currentNode, thrownResult(ex, currentNode), duration)
    /\ UNCHANGED <<storeVars, env>>

\* the timer of sleep(delay) fires: the retry step is executed
SleepDone ==
    /\ ex.pc = "sleep"
    /\ ex' = beginStep([ex EXCEPT !.elapsed = @ + ex.delay], currentNode, ex.attempt)
    /\ UNCHANGED <<storeVars, env>>

InitExec ==
    /\ now = 0
    /\ executionLogs = NoExecutionLogs
    /\ heap = NoHeap
    /\ redis = EmptyStore
    /\ last = NoCall
    /\ calls = <<>>
    /\ \E w \in Workflows, o \in OptionSets, r \in Registries,
          s \in {Null, "s1"} :
          env = [graph |-> buildExecutionGraph(w), options |-> o,
                 registered |-> r, triggerPayload |-> [k \in {"amount"} |-> 50],
                 session |-> s]
    /\ ex = [NoEx EXCEPT !.pc = "ready",
                         !.nodeResults = [n \in DOMAIN env.graph.nodes |-> <<>>]]

NextExec ==
    \/ ExecStart
    \/ LoopStep
    \/ HandlerReturns
    \/ HandlerThrows
    \/ SleepDone

SpecExec == InitExec /\ [][NextExec]_vars

\* ------------------------------------------ POST /api/workflows/execute --
\* The route handler compiles the workflow, gets or creates the session,
\* then awaits execute(graph, triggerPayload, session || undefined, options).
\* An exception of the Session Store is caught by the handler, which answers
\* 500 without executing.
RouteSession ==
    [sessionId |-> "s1", type |-> "ussd", msisdn |-> "m1", data |-> EmptyData,
     expiresAt |-> NoExpiry, isActive |-> TRUE]

\* the store the Session Store holds when the request arrives: empty, with
\* a session created at time 0, or with that session ended
RouteStore(history) ==
    IF history = "empty" THEN EmptyStore
    ELSE IF history = "created" THEN createSession(EmptyStore, RouteSession, 0).st
    ELSE endSession(createSession(EmptyStore, RouteSession, 0).st, "s1", 0,
                    MaxStack).st

RouteWorkflows == {DiamondWorkflow, EndFirstWorkflow, TriggerOnlyWorkflow}

routeCatch(e) ==
    [e EXCEPT !.pc = "done",
              !.result = [status |-> "http_500", errorCode |-> "Execution failed",
                          output |-> EmptyData, nodeResults |-> <<>>]]

RouteExecute ==
    /\ ex.pc = "request"
    /\ \E sid \in SessionIds \cup {Null}, m \in Msisdns,
          uuid \in SessionIds \ DOMAIN redis.objs :
          LET r == getOrCreateSession(redis, sid, env.graph.requiresSession,
                                      env.graph.nodes[env.graph.trigger].type,
                                      m, uuid, now, MaxStack)
          IN /\ Respond(IF sid # Null THEN "get"
                        ELSE IF env.graph.requiresSession THEN "create"
                        ELSE "execute",
                        sid, "", "", r)
             /\ env' = [env EXCEPT !.session = r.ret]
             /\ ex' = IF r.err = "none" THEN [ex EXCEPT !.pc = "ready"]
                      ELSE routeCatch(ex)
    /\ UNCHANGED <<now, calls, executionLogs, heap>>

InitRoute ==
    /\ now \in {0, MaxTime}
    /\ executionLogs = NoExecutionLogs
    /\ heap = NoHeap
    /\ \E history \in {"empty", "created", "ended"} : redis = RouteStore(history)
    /\ last = NoCall
    /\ calls = <<>>
    /\ \E w \in RouteWorkflows, o \in OptionSets, r \in Registries :
          env = [graph |-> buildExecutionGraph(w), options |-> o,
                 registered |-> r, triggerPayload |-> [k \in {"amount"} |-> 50],
                 session |-> Null]
    /\ ex = [NoEx EXCEPT !.pc = "request",
                         !.nodeResults = [n \in DOMAIN env.graph.nodes |-> <<>>]]

NextRoute ==
    \/ RouteExecute
    \/ ExecStart
    \/ LoopStep
    \/ HandlerReturns
    \/ HandlerThrows
    \/ SleepDone

SpecRoute == InitRoute /\ [][NextRoute]_vars

\* ------------------------------------------------------------- claims ----
Records == DOMAIN redis.objs
pairOf(s) == <<s.msisdn, s.type>>

\* C1: each (subscriber, channel) pair has at most one record with
\* active = true, after any sequence of Session Store calls.
C1_AtMostOneActivePerPair ==
    \A a \in Records, b \in Records :
        (a # b /\ redis.objs[a].isActive /\ redis.objs[b].isActive)
            => pairOf(redis.objs[a]) # pairOf(redis.objs[b])

\* C2: get and find_active never return a record that is inactive or
\* expired (so after end(S) both lookups of S return null).
C2_LookupsOnlyActiveUnexpired ==
    (last.op \in {"get", "find_active"} /\ last.ret # Null)
        => (redis.objs[last.ret].isActive /\ ~isExpired(redis.objs[last.ret], now))

\* C3: get(session_id) on a record whose expires_at is in the past returns
\* null (it terminates normally), and afterwards the record is inactive and
\* its index entry is gone.
C3_GetExpiredEndsRecord ==
    (last.op = "get" /\ last.sessionId \in Records
        /\ isExpired(redis.objs[last.sessionId], now))
        => /\ last.err = "none"
           /\ last.ret = Null
           /\ ~redis.objs[last.sessionId].isActive
           /\ redis.index[pairOf(redis.objs[last.sessionId])] # last.sessionId

hasActiveIndexed(st, m, ty) ==
    /\ st.index[<<m, ty>>] # Null
    /\ st.objs[st.index[<<m, ty>>]].isActive

\* C5: create for a pair that already has an active indexed session fails
\* with session_conflict and leaves the records and the index unchanged.
C5_CreateConflictFails ==
    [][(last'.op = "create" /\ redis' # redis
            /\ hasActiveIndexed(redis, last'.msisdn, last'.type))
        => (last'.err = "session_conflict" /\ redis' = redis)]_vars

\* C6: update_data on an absent or inactive session fails with
\* session_not_found and changes neither a record nor the index.
C6_UpdateInactiveFails ==
    [][(last'.op = "update" /\ last' # last
            /\ (last'.sessionId \notin Records
                \/ ~redis.objs[last'.sessionId].isActive))
        => (last'.err = "not_found" /\ redis' = redis)]_vars

\* C7: touch on an inactive session changes nothing; on an active session
\* it changes at most last_activity_at of that session.
C7_TouchFrame ==
    [][(last'.op = "touch" /\ last'.sessionId \in Records)
        => IF ~redis.objs[last'.sessionId].isActive
           THEN redis' = redis
           ELSE redis' = [redis EXCEPT !.objs[last'.sessionId].lastActivityAt =
                              redis'.objs[last'.sessionId].lastActivityAt]]_vars

\* the records sweep has to end at clock reading t
activeExpired(st, t) ==
    {r \in DOMAIN st.objs : st.objs[r].isActive /\ isExpired(st.objs[r], t)}

\* C8: sweep ends exactly the active expired records, leaves every other
\* record unchanged and returns how many it ended.
C8_SweepEndsExpired ==
    [][(last'.op = "sweep" /\ last' # last)
        => /\ last'.err = "none"
           /\ last'.cleaned = Cardinality(activeExpired(redis, now))
           /\ \A r \in Records :
                 IF r \in activeExpired(redis, now)
                 THEN ~redis'.objs[r].isActive
                 ELSE redis'.objs[r] = redis.objs[r]]_vars

\* one call executed alone, as a single step, at the time it started
applyCall(st, c) ==
    IF c.op = "update" THEN updateSession(st, c.sessionId, c.data, c.t0, MaxStack)
    ELSE IF c.op = "end" THEN endSession(st, c.sessionId, c.t0, MaxStack)
    ELSE touchSession(st, c.sessionId, c.t0, MaxStack)

\* first call i, then call j, each executed alone
serialRun(i, j) ==
    LET r1 == applyCall(ConcStoreAt(0), calls[i])
        r2 == applyCall(r1.st, calls[j])
    IN [st |-> r2.st, err |-> [k \in {i, j} |-> IF k = i THEN r1.err ELSE r2.err]]

\* a store without its activity timestamps
observable(st) ==
    [objs |-> [r \in DOMAIN st.objs |-> [st.objs[r] EXCEPT !.lastActivityAt = 0]],
     index |-> st.index]

\* C9: two calls running concurrently on one session_id leave the records,
\* the index and their responses as one of the two serial orders does, and
\* every key written by a successful update_data is present afterwards.
C9_ConcurrentCallsSerialized ==
    (calls # <<>> /\ \A i \in DOMAIN calls : calls[i].pc = "done")
        => /\ \E o \in {<<1, 2>>, <<2, 1>>} :
                 LET sr == serialRun(o[1], o[2])
                 IN /\ observable(redis) = observable(sr.st)
                    /\ \A k \in DOMAIN calls : calls[k].err = sr.err[k]
           /\ \A i \in DOMAIN calls :
                 (calls[i].op = "update" /\ calls[i].err = "none")
                     => DOMAIN calls[i].data
                            \subseteq DOMAIN redis.objs[ConcSession].data

\* two update_data calls writing different keys, both waiting at once
C9_Witness ==
    /\ calls # <<>>
    /\ \A i \in DOMAIN calls :
          calls[i].pc = "done" /\ calls[i].raced /\ calls[i].op = "update"
              /\ calls[i].err = "none"
    /\ DOMAIN calls[1].data # DOMAIN calls[2].data

\* an update_data and an end that were both waiting at once
C9_WitnessEnd ==
    /\ calls # <<>>
    /\ \A i \in DOMAIN calls : calls[i].pc = "done" /\ calls[i].raced
    /\ calls[1].op = "update" /\ calls[2].op = "end"

\* ---- Execution Engine claims
topResult(n) == ex.nodeResults[n][1]

\* the handle a routing node selected: its final result is a success whose
\* output carries exactly one of the node's output handles
selectedHandles(n) ==
    IF Len(ex.nodeResults[n]) > 0 /\ topResult(n).status = "success"
    THEN DOMAIN topResult(n).output
            \cap nodeDefinition(env.graph.nodes[n].type).outputHandles
    ELSE {}

\* every incoming edge of n leaves a handle its source did not select
onUnselectedBranch(n) ==
    /\ env.graph.nodes[n].incomingEdges # <<>>
    /\ \A i \in DOMAIN env.graph.nodes[n].incomingEdges :
          LET edge == env.graph.nodes[n].incomingEdges[i]
          IN /\ edge.sourceHandle # ""
             /\ Cardinality(selectedHandles(edge.source)) = 1
             /\ edge.sourceHandle \notin selectedHandles(edge.source)

\* C10: a node all of whose incoming edges leave a non-selected handle of a
\* routing node is never dispatched, and its result is skipped.
C10_UnselectedBranchSkipped ==
    \A n \in DOMAIN env.graph.nodes :
        (ex.pc # "off" /\ onUnselectedBranch(n))
            => /\ \A i \in DOMAIN ex.dispatched : ex.dispatched[i].nodeId # n
               /\ (ex.pc = "done" /\ ex.result.status = "completed")
                     => (Len(ex.nodeResults[n]) > 0 /\ topResult(n).status = "skipped")

\* how often the handler of node n has been called
dispatchCount(n) ==
    Cardinality({i \in DOMAIN ex.dispatched : ex.dispatched[i].nodeId = n})

\* the result r is retry-eligible under the policy of node n: by its code
\* when the policy lists codes, by its type otherwise
retryEligible(n, r) ==
    /\ r.status \in {"error", "timeout"}
    /\ IF env.graph.nodes[n].retry.hasRetryableErrors
       THEN r.errorCode \in env.graph.nodes[n].retry.retryableErrors
       ELSE r.errorType \in {"transient", "rate_limit"}

\* C11: with enable_retries, a node whose handler fails with a retryable
\* error on every call is dispatched at most max_attempts times in total,
\* the initial attempt included.
C11_AtMostMaxAttemptsDispatches ==
    \A n \in DOMAIN env.graph.nodes :
        (/\ ex.pc # "off"
         /\ env.options.enableRetries
         /\ env.graph.nodes[n].retry.present
         /\ \A i \in DOMAIN ex.nodeResults[n] :
               retryEligible(n, ex.nodeResults[n][i]))
            => dispatchCount(n) <= env.graph.nodes[n].retry.maxAttempts

\* C12: a result that was followed by a re-execution of its node is not of
\* type permanent or validation, and is retry-eligible under the node's
\* policy (by type without a retryable_errors list, by code with one).
C12_OnlyRetryableErrorsRetried ==
    \A n \in DOMAIN env.graph.nodes :
        ex.pc # "off" =>
            \A i \in 2..Len(ex.nodeResults[n]) :
                /\ ex.nodeResults[n][i].errorType \notin {"permanent", "validation"}
                /\ retryEligible(n, ex.nodeResults[n][i])

RECURSIVE power(_, _)
power(b, k) == IF k = 0 THEN 1 ELSE b * power(b, k - 1)

\* min(initial_delay * multiplier^(i-1), max_delay) for the policy p
backoffDelay(p, i) ==
    LET multiplier == IF p.backoffMultiplier = 0 THEN 2 ELSE p.backoffMultiplier
        raw == p.initialDelayMs * power(multiplier, i - 1)
    IN IF p.maxDelayMs = 0 THEN raw ELSE Min(raw, p.maxDelayMs)

\* C13: the wait before the i-th retry of a node (i >= 1) equals
\* min(initial_delay * multiplier^(i-1), max_delay); no wait exceeds
\* max_delay.
C13_BackoffDelayCapped ==
    \A k \in DOMAIN ex.sleeps :
        ex.pc # "off" =>
            ex.sleeps[k].delay =
                backoffDelay(env.graph.nodes[ex.sleeps[k].nodeId].retry,
                             ex.sleeps[k].attempt)

\* C14: the results recorded for a node carry the attempt numbers
\* 0, 1, ..., k in order of execution.
C14_AttemptNumbersCount ==
    \A n \in DOMAIN env.graph.nodes :
        ex.pc # "off" =>
            \A i \in DOMAIN ex.nodeResults[n] :
                ex.nodeResults[n][Len(ex.nodeResults[n]) - i + 1].attempt = i - 1

\* the final (most recent) results of the nodes that have one
finalResults == {topResult(n) : n \in {m \in DOMAIN env.graph.nodes :
                                          Len(ex.nodeResults[m]) > 0}}

\* C15: an invocation that ran its loop to the end returns completed
\* exactly when no node's final result has status error or timeout, and
\* failed otherwise.
C15_CompletedIffNoFinalFailure ==
    (ex.pc = "done"
        /\ ex.result.errorCode \notin {"EXECUTION_TIMEOUT", "EXECUTION_ERROR"})
        => (ex.result.status = "completed"
               <=> \A r \in finalResults : r.status \notin {"error", "timeout"})

\* the handler of node n has been called, or n has a result
processed(n) == dispatchCount(n) > 0 \/ Len(ex.nodeResults[n]) > 0

\* C16: once a node whose catalog entry has ends_session = true has been
\* processed, no later node of execution_order is dispatched or given a
\* result.
C16_NothingAfterSessionEnd ==
    \A i \in DOMAIN env.graph.executionOrder, j \in DOMAIN env.graph.executionOrder :
        (/\ ex.pc # "off"
         /\ i < j
         /\ env.graph.nodes[env.graph.executionOrder[i]].endsSession
         /\ processed(env.graph.executionOrder[i]))
            => ~processed(env.graph.executionOrder[j])

\* an invocation returned after its SESSION_END node got a result, with a
\* node behind it in the execution order
C16_Witness ==
    /\ ex.pc = "done"
    /\ ex.result.status = "completed"
    /\ \E i \in DOMAIN env.graph.executionOrder :
          /\ i < Len(env.graph.executionOrder)
          /\ env.graph.nodes[env.graph.executionOrder[i]].endsSession
          /\ Len(ex.nodeResults[env.graph.executionOrder[i]]) > 0

\* options.maxExecutionTimeMs || 300000
maxExecutionTimeOf(options) ==
    IF options.maxExecutionTimeMs = 0 THEN DefaultMaxExecutionTimeMs
    ELSE options.maxExecutionTimeMs

\* C17: an invocation whose elapsed time exceeded max_execution_ms before
\* execute returned has status failed with code execution_timeout and
\* carries the node results recorded so far.
C17_DeadlineExceededFails ==
    (ex.pc = "done" /\ ex.elapsed > maxExecutionTimeOf(env.options))
        => /\ ex.result.status = "failed"
           /\ ex.result.errorCode = "EXECUTION_TIMEOUT"
           /\ ex.result.nodeResults = getAllNodeResults(ex)

\* C18: a handler that had not returned when the node's effective timeout
\* elapsed gives the node a result with status timeout and type transient.
C18_NodeTimeoutResult ==
    \A n \in DOMAIN env.graph.nodes :
        ex.pc # "off" =>
            \A i \in DOMAIN ex.nodeResults[n] :
                ex.nodeResults[n][i].durationMs > env.graph.nodes[n].timeout
                    => /\ ex.nodeResults[n][i].status = "timeout"
                       /\ ex.nodeResults[n][i].errorType = "transient"

\* C19: executing a graph that has no node besides the trigger returns
\* completed, no node results and the trigger payload as output.
C19_TriggerOnlyReturnsPayload ==
    (ex.pc = "done" /\ DOMAIN env.graph.nodes = {env.graph.trigger})
        => /\ ex.result.status = "completed"
           /\ ex.result.nodeResults = <<>>
           /\ ex.result.output = env.triggerPayload

\* C20: an invocation of a graph with metadata.requires_session = true
\* never dispatches a node while its context has no session, whichever
\* session_id (none, absent, ended, expired) the execute request names.
C20_NoDispatchWithoutSession ==
    (ex.pc \notin {"off", "request"} /\ env.graph.requiresSession
        /\ env.session = Null)
        => ex.dispatched = <<>>

\* C21: after an invocation in which a session_end node was processed has
\* returned, the session record attached to it is inactive in the Session
\* Store and no longer found by find_active.
C21_SessionEndedAfterInvocation ==
    (/\ ex.pc = "done"
     /\ env.session # Null
     /\ \E n \in DOMAIN env.graph.nodes :
           env.graph.nodes[n].endsSession /\ processed(n))
        => /\ ~redis.objs[env.session].isActive
           /\ getActiveSessionByMsisdn(redis, redis.objs[env.session].msisdn,
                                       redis.objs[env.session].type, now,
                                       MaxStack).ret # env.session

\* C22: every ExecutionResult with status failed contains the results of
\* all nodes recorded before the failure, also when the failure is an
\* exception that escapes the node loop.
C22_FailedResultKeepsNodeResults ==
    (ex.pc = "done" /\ ex.result.status = "failed")
        => ex.result.nodeResults = getAllNodeResults(ex)

\* -------------------------------------------- the caller cancels execute --
\* execute(graph, triggerPayload, session, options) has no parameter that
\* carries a cancellation signal, and ExecutionOptions has no such member:
\* the caller's signal fires while the invocation is running and nothing in
\* the invocation's state changes
Cancel ==
    /\ ex.pc \notin {"off", "ready", "done"}
    /\ calls = <<>>
    /\ calls' = <<[kind |-> "cancel", dispatchedBefore |-> Len(ex.dispatched)]>>
    /\ UNCHANGED <<now, redis, last, env, ex, executionLogs, heap>>

InitCancel ==
    /\ now = 0
    /\ executionLogs = NoExecutionLogs
    /\ heap = NoHeap
    /\ redis = EmptyStore
    /\ last = NoCall
    /\ calls = <<>>
    /\ \E w \in {DiamondWorkflow, EndFirstWorkflow}, o \in OptionSets,
          r \in Registries, s \in {Null, "s1"} :
          env = [graph |-> buildExecutionGraph(w), options |-> o,
                 registered |-> r, triggerPayload |-> [k \in {"amount"} |-> 50],
                 session |-> s]
    /\ ex = [NoEx EXCEPT !.pc = "ready",
                         !.nodeResults = [n \in DOMAIN env.graph.nodes |-> <<>>]]

NextCancel ==
    \/ Cancel
    \/ ExecStart
    \/ LoopStep
    \/ HandlerReturns
    \/ HandlerThrows
    \/ SleepDone

SpecCancel == InitCancel /\ [][NextCancel]_vars

\* C23: once the caller's cancellation signal has fired, no further node is
\* dispatched and execute returns the status cancelled.
C23_CancelStopsDispatchAndReturnsCancelled ==
    calls # <<>>
        => /\ Len(ex.dispatched) = calls[1].dispatchedBefore
           /\ ex.pc = "done" => ex.result.status = "cancelled"

\* ------------------------------------------ validateWorkflowSpec, compile --
\* the types nodeRegistry holds after initializeNodeDefinitions()
RegisteredNodeTypes ==
    TriggerNodeTypes \cup
    {"SEND_SMS", "SEND_USSD_RESPONSE", "INITIATE_CALL", "PLAY_IVR",
     "COLLECT_DTMF", "REQUEST_PAYMENT", "REFUND_PAYMENT", "HTTP_REQUEST",
     "CONDITION", "SWITCH", "DELAY", "RETRY", "RATE_LIMIT", "MERGE",
     "SESSION_READ", "SESSION_WRITE", "SESSION_END"}

\* a node of a description handed to the validator and the compiler;
\* configValid stands for the outcome of the type's configSchema.safeParse
DescNode(id, type, configValid) ==
    [id |-> id, type |-> type, retry |-> NoRetry, disabled |-> FALSE,
     timeout |-> 0, configValid |-> configValid]

nodeIdsOf(spec) == {spec.nodes[i].id : i \in DOMAIN spec.nodes}

RECURSIVE dfs(_, _, _)
RECURSIVE dfsTargets(_, _, _)
\* findReachableNodes.dfs: visited is the set of ids reached so far
dfs(spec, nodeId, visited) ==
    IF nodeId \in visited THEN visited
    ELSE dfsTargets(spec, selectSeq(spec.edges, "source", nodeId),
                    visited \cup {nodeId})

dfsTargets(spec, outgoingEdges, visited) ==
    IF outgoingEdges = <<>> THEN visited
    ELSE dfsTargets(spec, Tail(outgoingEdges),
                    dfs(spec, Head(outgoingEdges).target, visited))

findReachableNodes_all(spec) == nodeIdsOf(spec) \cup {spec.trigger.id}
findReachableNodes(spec) == dfs(spec, spec.trigger.id, {})

\* the error codes validateGraphStructure pushes
validateGraphStructure(spec) ==
    LET nodeIds == nodeIdsOf(spec)
        reachable == findReachableNodes(spec)
    IN  {"INVALID_EDGE_SOURCE" : i \in {j \in DOMAIN spec.edges :
                                          spec.edges[j].source \notin nodeIds}}
        \cup {"INVALID_EDGE_TARGET" : i \in {j \in DOMAIN spec.edges :
                                          spec.edges[j].target \notin nodeIds}}
        \cup (IF spec.trigger.id \notin nodeIds
              THEN {"TRIGGER_NOT_IN_NODES"} ELSE {})
        \cup {"UNREACHABLE_NODE" : i \in {j \in DOMAIN spec.nodes :
                                          /\ spec.nodes[j].id \notin reachable
                                          /\ spec.nodes[j].id # spec.trigger.id}}

\* the error codes validateSemantics pushes
validateSemantics(spec) ==
    LET nodeIdCounts == [id \in nodeIdsOf(spec) |->
                            Cardinality({i \in DOMAIN spec.nodes :
                                           spec.nodes[i].id = id})]
        hasIncomingToTrigger == \E i \in DOMAIN spec.edges :
                                    spec.edges[i].target = spec.trigger.id
        hasSessionEnd == \E i \in DOMAIN spec.nodes :
                             spec.nodes[i].type = "SESSION_END"
    IN  {"DUPLICATE_NODE_ID" : id \in {n \in nodeIdsOf(spec) :
                                          nodeIdCounts[n] > 1}}
        \cup (IF hasIncomingToTrigger
              THEN {"TRIGGER_HAS_INCOMING_EDGES"} ELSE {})
        \cup (IF spec.trigger.type = "USSD_SESSION_START" /\ ~hasSessionEnd
              THEN {"USSD_MISSING_SESSION_END"} ELSE {})

\* validateWorkflowSpec: schemaValid stands for WorkflowSpecSchema.safeParse
validateWorkflowSpec(spec) ==
    IF ~spec.schemaValid
    THEN [valid |-> FALSE, errors |-> {"SCHEMA_VALIDATION_ERROR"}]
    ELSE LET errors == validateGraphStructure(spec) \cup validateSemantics(spec)
         IN [valid |-> errors = {}, errors |-> errors]

\* no node definition of the repository sets allowedIncomingTypes or
\* allowedOutgoingTypes
allowedIncomingTypes(type) == {}
allowedOutgoingTypes(type) == {}

\* validateExecutionGraph without its USSD check
validateExecutionGraph_noUssdCheck(graph) ==
    IF graph.nodes[graph.trigger].incomingEdges # <<>>
    THEN {"TRIGGER_HAS_INCOMING_EDGES"} ELSE {}
\* the error codes validateExecutionGraph pushes
validateExecutionGraph(graph) ==
    LET trigger == graph.nodes[graph.trigger]
        badIncoming(id) ==
            /\ allowedIncomingTypes(graph.nodes[id].type) # {}
            /\ \E i \in DOMAIN graph.nodes[id].incomingEdges :
                  LET source == graph.nodes[id].incomingEdges[i].source
                  IN /\ source \in DOMAIN graph.nodes
                     /\ graph.nodes[source].type
                            \notin allowedIncomingTypes(graph.nodes[id].type)
        badOutgoing(id) ==
            /\ allowedOutgoingTypes(graph.nodes[id].type) # {}
            /\ \E i \in DOMAIN graph.nodes[id].outgoingEdges :
                  LET target == graph.nodes[id].outgoingEdges[i].target
                  IN /\ target \in DOMAIN graph.nodes
                     /\ graph.nodes[target].type
                            \notin allowedOutgoingTypes(graph.nodes[id].type)
    IN  (IF trigger.incomingEdges # <<>>
         THEN {"TRIGGER_HAS_INCOMING_EDGES"} ELSE {})
        \cup (IF trigger.type = "USSD_SESSION_START" /\ ~graph.hasSessionEnd
              THEN {"USSD_MISSING_SESSION_END"} ELSE {})
        \cup {"INVALID_NODE_CONNECTION" :
                 id \in {n \in DOMAIN graph.nodes :
                            badIncoming(n) \/ badOutgoing(n)}}

NoGraph == <<>>

\* compileWorkflow; the catch block stands behind hasCycles, the throw of
\* topologicalSort
compileWorkflow(spec) ==
    LET validationResult == validateWorkflowSpec(spec)
        unknown == {i \in DOMAIN spec.nodes :
                       spec.nodes[i].type \notin RegisteredNodeTypes}
        badConfig == {i \in DOMAIN spec.nodes : ~spec.nodes[i].configValid}
        graph == buildExecutionGraph([spec EXCEPT !.trigger = spec.trigger.id])
        graphErrors == validateExecutionGraph(graph)
        failure(codes) == [success |-> FALSE, errors |-> codes, graph |-> NoGraph]
    IN  IF ~validationResult.valid THEN failure(validationResult.errors)
        ELSE IF unknown # {} THEN failure({"UNKNOWN_NODE_TYPE"})
        ELSE IF badConfig # {} THEN failure({"NODE_CONFIG_VALIDATION_ERROR"})
        ELSE IF graph.hasCycles THEN failure({"COMPILATION_ERROR"})
        ELSE IF graphErrors # {} THEN failure(graphErrors)
        ELSE [success |-> TRUE, errors |-> {}, graph |-> graph]

\* the descriptions handed to POST /validate and POST /compile: the trigger
\* field, up to four entries of nodes (z.array(z.any()): the entry of the
\* trigger may be missing or carry another type than the trigger field, a
\* type may be unregistered, an id may occur twice) and any edges among them
DescTriggerEntries ==
    {<<>>} \cup {<<DescNode("t", ty, TRUE)>> :
                    ty \in {"USSD_SESSION_START", "SMS_RECEIVED"}}
DescFirstEntries ==
    {<<>>, <<DescNode("a", "SEND_SMS", TRUE)>>,
     <<DescNode("a", "SEND_SMS", FALSE)>>,
     <<DescNode("a", "SESSION_END", TRUE)>>,
     <<DescNode("a", "CUSTOM_CODE", TRUE)>>}
DescSecondEntries ==
    {<<>>, <<DescNode("b", "SEND_SMS", TRUE)>>,
     <<DescNode("b", "SESSION_END", TRUE)>>}
DescDuplicateEntries == {<<>>, <<DescNode("a", "SEND_SMS", TRUE)>>}
DescEdgePairs ==
    <<<<"t", "a">>, <<"t", "b">>, <<"a", "b">>, <<"b", "a">>, <<"a", "t">>,
      <<"b", "t">>>>

RECURSIVE edgesAmong(_, _)
\* the edges of DescEdgePairs picked by chosen, in the order of the list
edgesAmong(pairs, chosen) ==
    IF pairs = <<>> THEN <<>>
    ELSE (IF Head(pairs) \in chosen
          THEN <<SpecEdge(Head(pairs)[1], Head(pairs)[2], "")>> ELSE <<>>)
         \o edgesAmong(Tail(pairs), chosen)

Descriptions ==
    {[schemaValid |-> sv,
      trigger |-> [id |-> "t", type |-> ty],
      nodes |-> t \o a \o b \o dup,
      edges |-> edgesAmong(DescEdgePairs, chosen)] :
        sv \in BOOLEAN, ty \in {"USSD_SESSION_START", "SMS_RECEIVED"},
        t \in DescTriggerEntries, a \in DescFirstEntries,
        b \in DescSecondEntries, dup \in DescDuplicateEntries,
        chosen \in SUBSET {DescEdgePairs[i] : i \in DOMAIN DescEdgePairs}}

NoValidation == [done |-> FALSE, valid |-> FALSE, errors |-> {}]
NoCompilation == [done |-> FALSE, success |-> FALSE, errors |-> {},
                  graph |-> NoGraph]

\* POST /validate
ValidateRoute ==
    /\ ~last.validation.done
    /\ LET result == validateWorkflowSpec(env.spec)
       IN last' = [last EXCEPT !.validation =
                       [done |-> TRUE, valid |-> result.valid,
                        errors |-> result.errors]]
    /\ UNCHANGED <<now, redis, calls, env, ex, executionLogs, heap>>

\* POST /compile
CompileRoute ==
    /\ ~last.compilation.done
    /\ LET result == compileWorkflow(env.spec)
       IN last' = [last EXCEPT !.compilation =
                       [done |-> TRUE, success |-> result.success,
                        errors |-> result.errors, graph |-> result.graph]]
    /\ UNCHANGED <<now, redis, calls, env, ex, executionLogs, heap>>

InitCompile ==
    /\ now = 0
    /\ executionLogs = NoExecutionLogs
    /\ heap = NoHeap
    /\ redis = EmptyStore
    /\ calls = <<>>
    /\ ex = NoEx
    /\ \E d \in Descriptions : env = [spec |-> d]
    /\ last = [validation |-> NoValidation, compilation |-> NoCompilation]

NextCompile ==
    \/ ValidateRoute
    \/ CompileRoute

SpecCompile == InitCompile /\ [][NextCompile]_vars

\* ----------------------------------------------- claims on the compiler --
positionsOf(order, id) == {i \in DOMAIN order : order[i] = id}

RECURSIVE closureOf(_, _)
\* the ids that the edges of a description lead to from the ids of S
closureOf(spec, S) ==
    LET next == S \cup {spec.edges[i].target :
                           i \in {j \in DOMAIN spec.edges :
                                     spec.edges[j].source \in S}}
    IN IF next = S THEN S ELSE closureOf(spec, next)

reachableFromTrigger(spec) == closureOf(spec, {spec.trigger.id})

hasUnreachableNode(spec) ==
    \E i \in DOMAIN spec.nodes : spec.nodes[i].id \notin reachableFromTrigger(spec)

\* some edge leaves a node from which the edges lead back to it
isCyclic(spec) ==
    \E i \in DOMAIN spec.edges :
        spec.edges[i].source \in closureOf(spec, {spec.edges[i].target})

\* the trigger field or the nodes entry of the trigger says USSD_SESSION_START
\* and no node is a SESSION_END
ussdWithoutSessionEnd(spec) ==
    /\ \/ spec.trigger.type = "USSD_SESSION_START"
       \/ \E i \in DOMAIN spec.nodes :
             /\ spec.nodes[i].id = spec.trigger.id
             /\ spec.nodes[i].type = "USSD_SESSION_START"
    /\ \A i \in DOMAIN spec.nodes : spec.nodes[i].type # "SESSION_END"

\* C24: in every graph compile returns, each node of the graph appears
\* exactly once in the execution order and the source of every edge comes
\* before its target.
C24_ExecutionOrderIsTopological ==
    (last.compilation.done /\ last.compilation.success)
        => LET graph == last.compilation.graph
               order == graph.executionOrder
           IN /\ \A id \in DOMAIN graph.nodes :
                    Cardinality(positionsOf(order, id)) = 1
              /\ \A id \in DOMAIN graph.nodes :
                    \A i \in DOMAIN graph.nodes[id].outgoingEdges :
                       \A p \in positionsOf(order, id),
                          q \in positionsOf(order,
                                   graph.nodes[id].outgoingEdges[i].target) :
                          p < q

\* compile returned a graph of three nodes and three edges
C24_Witness ==
    /\ last.compilation.done
    /\ last.compilation.success
    /\ Cardinality(DOMAIN last.compilation.graph.nodes) = 3
    /\ Len(env.spec.edges) = 3

\* C25: compile of a description whose graph has a cycle returns
\* success = false, no graph, and the error code cycle_detected.
C25_CycleReportedAsCycleDetected ==
    (last.compilation.done /\ isCyclic(env.spec))
        => /\ ~last.compilation.success
           /\ last.compilation.graph = NoGraph
           /\ "CYCLE_DETECTED" \in last.compilation.errors

\* C26: validate answers valid = true for a description exactly when
\* compile answers success = true for it.
C26_ValidIffCompiles ==
    (last.validation.done /\ last.compilation.done)
        => (last.validation.valid <=> last.compilation.success)

\* only the nodes entry of the trigger says USSD_SESSION_START
onlyEntryCarriesUssd(spec) == spec.trigger.type # "USSD_SESSION_START"

\* nothing but the missing SESSION_END is wrong with the description
otherwiseClean(spec) ==
    /\ \A i, j \in DOMAIN spec.nodes : spec.nodes[i].id = spec.nodes[j].id => i = j
    /\ \E i \in DOMAIN spec.nodes : spec.nodes[i].id = spec.trigger.id
    /\ \A i \in DOMAIN spec.edges :
          /\ \E j \in DOMAIN spec.nodes : spec.nodes[j].id = spec.edges[i].source
          /\ \E j \in DOMAIN spec.nodes : spec.nodes[j].id = spec.edges[i].target
          /\ spec.edges[i].target # spec.trigger.id
    /\ ~hasUnreachableNode(spec)
    /\ ~isCyclic(spec)
    /\ \A i \in DOMAIN spec.nodes :
          spec.nodes[i].type \in RegisteredNodeTypes /\ spec.nodes[i].configValid

\* C27 as stated: a description whose trigger is ussd_session_start and that
\* has no session_end node makes compile return success = false with the
\* error ussd_missing_session_end, whichever of the trigger field and the
\* nodes entry carries the type.
C27_UssdWithoutEndReportsMissingEnd ==
    (last.compilation.done /\ ussdWithoutSessionEnd(env.spec))
        => /\ ~last.compilation.success
           /\ "USSD_MISSING_SESSION_END" \in last.compilation.errors

\* C27 amended: such a description never compiles; the errors include
\* ussd_missing_session_end when the description passes the schema and
\* either the trigger field carries the type or nothing else is wrong with
\* the description.
C27_UssdWithoutEndNeverCompiles ==
    (last.compilation.done /\ ussdWithoutSessionEnd(env.spec))
        => /\ ~last.compilation.success
           /\ last.compilation.graph = NoGraph
           /\ (/\ env.spec.schemaValid
               /\ onlyEntryCarriesUssd(env.spec) => otherwiseClean(env.spec))
                  => "USSD_MISSING_SESSION_END" \in last.compilation.errors

\* only the nodes entry of the trigger carries the type, and compile reports
\* the missing SESSION_END
C27_Witness ==
    /\ last.compilation.done
    /\ ussdWithoutSessionEnd(env.spec)
    /\ onlyEntryCarriesUssd(env.spec)
    /\ Len(env.spec.nodes) >= 2
    /\ "USSD_MISSING_SESSION_END" \in last.compilation.errors

\* C28 as stated: every graph compile returns holds only nodes reachable
\* from the trigger, and a description with an unreachable node fails to
\* compile with the error unreachable_node.
C28_UnreachableNodeReported ==
    last.compilation.done
        => /\ last.compilation.success
              => DOMAIN last.compilation.graph.nodes
                     \subseteq reachableFromTrigger(env.spec)
           /\ hasUnreachableNode(env.spec)
              => /\ ~last.compilation.success
                 /\ "UNREACHABLE_NODE" \in last.compilation.errors

\* C28 amended: every graph compile returns holds only nodes reachable from
\* the trigger, and a description that passes the schema and has an
\* unreachable node fails to compile with the error unreachable_node.
C28_OnlyReachableNodesCompile ==
    last.compilation.done
        => /\ last.compilation.success
              => DOMAIN last.compilation.graph.nodes
                     \subseteq reachableFromTrigger(env.spec)
           /\ hasUnreachableNode(env.spec)
              => /\ ~last.compilation.success
                 /\ last.compilation.graph = NoGraph
                 /\ env.spec.schemaValid
                      => "UNREACHABLE_NODE" \in last.compilation.errors

\* compile rejected a description whose second node hangs off nothing
C28_Witness ==
    /\ last.compilation.done
    /\ env.spec.schemaValid
    /\ hasUnreachableNode(env.spec)
    /\ Len(env.spec.edges) >= 1
    /\ "UNREACHABLE_NODE" \in last.compilation.errors

\* ----------------------------------------------------- template-renderer --
\* a string is the sequence of its characters
MaxTemplateLen == 5

Str1(c1) == <<c1>>
Placeholder(name) == <<"{", "{">> \o name \o <<"}", "}">>

RECURSIVE indexOfFrom(_, _, _)
\* the first index >= i at which pat starts in s, 0 when there is none
indexOfFrom(s, pat, i) ==
    IF i + Len(pat) - 1 > Len(s) THEN 0
    ELSE IF SubSeq(s, i, i + Len(pat) - 1) = pat THEN i
    ELSE indexOfFrom(s, pat, i + 1)

\* String.prototype.includes
includes(s, pat) == indexOfFrom(s, pat, 1) # 0

RECURSIVE split(_, _)
\* String.prototype.split with a non-empty separator
split(s, sep) ==
    LET i == indexOfFrom(s, sep, 1)
    IN IF i = 0 THEN <<s>>
       ELSE <<SubSeq(s, 1, i - 1)>> \o split(SubSeq(s, i + Len(sep), Len(s)), sep)

RECURSIVE trimStart(_)
trimStart(s) == IF s # <<>> /\ Head(s) = " " THEN trimStart(Tail(s)) ELSE s
RECURSIVE trimEnd(_)
trimEnd(s) ==
    IF s # <<>> /\ s[Len(s)] = " " THEN trimEnd(SubSeq(s, 1, Len(s) - 1)) ELSE s
\* String.prototype.trim
trim(s) == trimEnd(trimStart(s))

\* the values of a variables object: text, a nested object, or nothing
Undef == [kind |-> "undefined"]
Text(s) == [kind |-> "string", str |-> s]
Obj(fields) == [kind |-> "object", fields |-> fields]

RECURSIVE walk(_, _)
\* the loop of getNestedValue over the parts of the path
walk(current, parts) ==
    IF parts = <<>> THEN current
    ELSE IF current.kind = "undefined" THEN Undef
    ELSE IF current.kind # "object" THEN Undef
    ELSE walk(IF Head(parts) \in DOMAIN current.fields
              THEN current.fields[Head(parts)] ELSE Undef,
              Tail(parts))

getNestedValue(obj, path) == walk(obj, split(path, Str1(".")))

\* String(value)
toString(value) ==
    IF value.kind = "string" THEN value.str
    ELSE <<"[", "o", "b", "j", "e", "c", "t", " ", "O", "b", "j", "e", "c",
           "t", "]">>

\* the end of the match of /\{\{([^}]+)\}\}/ that starts at i, 0 when the
\* pattern does not match there: [^}]+ runs up to the first "}" and must
\* not be empty, and "}}" has to follow it
matchEnd(template, i) ==
    IF i + 1 > Len(template) \/ template[i] # "{" \/ template[i + 1] # "{"
    THEN 0
    ELSE LET close == indexOfFrom(template, Str1("}"), i + 2)
         IN IF close < i + 3 THEN 0
            ELSE IF close + 1 > Len(template) \/ template[close + 1] # "}"
                 THEN 0
            ELSE close + 1

\* the callback of template.replace
replacement(match, variables) ==
    LET path == SubSeq(match, 3, Len(match) - 2)
        trimmedPath == trim(path)
        value == getNestedValue(variables, trimmedPath)
    IN IF value.kind = "undefined" THEN match ELSE toString(value)

RECURSIVE replaceFrom(_, _, _)
\* template.replace(/.../g, callback): one pass from left to right, the
\* text a callback returns is not scanned again
replaceFrom(template, variables, i) ==
    IF i > Len(template) THEN <<>>
    ELSE LET end == matchEnd(template, i)
         IN IF end = 0
            THEN <<template[i]>> \o replaceFrom(template, variables, i + 1)
            ELSE replacement(SubSeq(template, i, end), variables)
                    \o replaceFrom(template, variables, end + 1)

renderTemplate(template, variables) == replaceFrom(template, variables, 1)

Digits == <<"0", "1", "2", "3", "4", "5", "6", "7", "8", "9">>
digitValue(c) == (CHOOSE k \in DOMAIN Digits : Digits[k] = c) - 1
isDigit(c) == \E k \in DOMAIN Digits : Digits[k] = c

RECURSIVE decimal(_)
decimal(s) ==
    IF s = <<>> THEN 0
    ELSE 10 * decimal(SubSeq(s, 1, Len(s) - 1)) + digitValue(s[Len(s)])

NaN == [nan |-> TRUE, value |-> 0]
\* Number(text): blank text is 0, a run of digits its value, text with
\* another character NaN
Number(s) ==
    LET t == trim(s)
    IN IF \A k \in DOMAIN t : isDigit(t[k])
       THEN [nan |-> FALSE, value |-> decimal(t)]
       ELSE NaN

\* [left, right] of rendered.split(op).map(trim)
operandsAround(rendered, op) ==
    LET parts == split(rendered, op)
    IN [left |-> trim(parts[1]), right |-> trim(parts[2])]

\* evaluateExpression: the operators are looked for in the order of the
\* if-statements; a comparison with NaN is false
evaluateExpression(expression, variables) ==
    LET rendered == renderTemplate(expression, variables)
        numeric(op) ==
            LET o == operandsAround(rendered, op)
            IN [l |-> Number(o.left), r |-> Number(o.right)]
        bothNumbers(n) == ~n.l.nan /\ ~n.r.nan
    IN  IF includes(rendered, Str1(">"))
        THEN LET n == numeric(Str1(">"))
             IN bothNumbers(n) /\ n.l.value > n.r.value
        ELSE IF includes(rendered, Str1("<"))
        THEN LET n == numeric(Str1("<"))
             IN bothNumbers(n) /\ n.l.value < n.r.value
        ELSE IF includes(rendered, <<">", "=">>)
        THEN LET n == numeric(<<">", "=">>)
             IN bothNumbers(n) /\ n.l.value >= n.r.value
        ELSE IF includes(rendered, <<"<", "=">>)
        THEN LET n == numeric(<<"<", "=">>)
             IN bothNumbers(n) /\ n.l.value <= n.r.value
        ELSE IF includes(rendered, <<"=", "=">>)
        THEN LET o == operandsAround(rendered, <<"=", "=">>)
             IN o.left = o.right
        ELSE IF includes(rendered, <<"!", "=">>)
        THEN LET o == operandsAround(rendered, <<"!", "=">>)
             IN o.left # o.right
        ELSE rendered # <<>>

\* the templates handed to renderTemplate: every text of up to
\* MaxTemplateLen characters over braces and two names, and some longer ones
TemplateChars == {"{", "}", "a", "b"}
RECURSIVE textsUpTo(_)
textsUpTo(n) ==
    IF n = 0 THEN {<<>>}
    ELSE textsUpTo(n - 1)
            \cup {Append(t, c) : t \in {u \in textsUpTo(n - 1) : Len(u) = n - 1},
                                 c \in TemplateChars}
Templates ==
    textsUpTo(MaxTemplateLen)
        \cup {Placeholder(<<" ", "a", " ">>), Placeholder(<<"a", ".", "b">>),
              Str1("b") \o Placeholder(Str1("a")) \o Placeholder(Str1("b"))}

\* the variables objects handed to renderTemplate
VariableSets ==
    {Obj(<<>>),
     Obj(Str1("a") :> Text(Str1("b"))),
     Obj(Str1("a") :> Text(<<>>) @@ Str1("b") :> Text(Str1("a"))),
     Obj(Str1("a") :> Text(Placeholder(Str1("a")))),
     Obj(Str1("a") :> Text(Placeholder(Str1("b"))) @@ Str1("b") :> Text(Str1("a"))),
     Obj(Str1("a") :> Obj(Str1("b") :> Text(Str1("b"))))}

\* the conditions 'a OP b' handed to evaluateExpression
Operators == {Str1(">"), Str1("<"), <<">", "=">>, <<"<", "=">>,
              <<"=", "=">>, <<"!", "=">>}
Operands == {Str1("1"), Str1("2"), <<"1", "0">>, <<"0", "1">>}
Spacings == {<<>>, Str1(" ")}
NoCondition == [left |-> <<>>, op |-> <<>>, right |-> <<>>]

NoRendering == [rendered |-> FALSE, first |-> <<>>, again |-> FALSE,
                second |-> <<>>, evaluated |-> FALSE, verdict |-> FALSE]

\* renderTemplate(template, variables)
Render ==
    /\ ~last.rendered
    /\ last' = [last EXCEPT !.rendered = TRUE,
                            !.first = renderTemplate(env.template, env.variables)]
    /\ UNCHANGED <<now, redis, calls, env, ex, executionLogs, heap>>

\* renderTemplate applied to its own result
RenderAgain ==
    /\ last.rendered
    /\ ~last.again
    /\ last' = [last EXCEPT !.again = TRUE,
                            !.second = renderTemplate(last.first, env.variables)]
    /\ UNCHANGED <<now, redis, calls, env, ex, executionLogs, heap>>

\* evaluateExpression(template, variables)
Evaluate ==
    /\ ~last.evaluated
    /\ ~last.rendered
    /\ last' = [last EXCEPT !.evaluated = TRUE,
                            !.verdict = evaluateExpression(env.template,
                                                           env.variables)]
    /\ UNCHANGED <<now, redis, calls, env, ex, executionLogs, heap>>

InitTemplate ==
    /\ now = 0
    /\ executionLogs = NoExecutionLogs
    /\ heap = NoHeap
    /\ redis = EmptyStore
    /\ calls = <<>>
    /\ ex = NoEx
    /\ last = NoRendering
    /\ \/ \E t \in Templates, v \in VariableSets :
             env = [template |-> t, variables |-> v, condition |-> NoCondition]
       \/ \E l \in Operands, op \in Operators, r \in Operands, sp \in Spacings :
             env = [template |-> l \o sp \o op \o sp \o r,
                    variables |-> Obj(<<>>),
                    condition |-> [left |-> l, op |-> op, right |-> r]]

NextTemplate ==
    \/ Render
    \/ RenderAgain
    \/ Evaluate

SpecTemplate == InitTemplate /\ [][NextTemplate]_vars

\* C29: rendering is idempotent: rendering the result of a rendering again
\* with the same variables gives the same text, also when a value of the
\* variables holds a placeholder itself.
C29_RenderIdempotent ==
    last.again => last.second = last.first

\* what the claim expects of 'a OP b'
expectedVerdict(c) ==
    IF c.op = Str1(">") THEN decimal(c.left) > decimal(c.right)
    ELSE IF c.op = Str1("<") THEN decimal(c.left) < decimal(c.right)
    ELSE IF c.op = <<">", "=">> THEN decimal(c.left) >= decimal(c.right)
    ELSE IF c.op = <<"<", "=">> THEN decimal(c.left) <= decimal(c.right)
    ELSE IF c.op = <<"=", "=">> THEN c.left = c.right
    ELSE c.left # c.right

\* C30: on a condition 'a OP b' evaluate_predicate returns the numeric
\* comparison for >, <, >=, <= and the textual (in)equality for == and !=;
\* the two-character operators are recognized before > and <.
C30_PredicateComparesByOperator ==
    (last.evaluated /\ env.condition # NoCondition)
        => last.verdict = expectedVerdict(env.condition)

\* ------------------------------------ claims on the index of the store --
\* the records of a (subscriber, channel) pair that are active and unexpired
liveRecords(st, m, ty, t) ==
    {s \in DOMAIN st.objs : /\ st.objs[s].msisdn = m
                            /\ st.objs[s].type = ty
                            /\ st.objs[s].isActive
                            /\ ~isExpired(st.objs[s], t)}

\* C38: if some record of a (subscriber, channel) pair is active and
\* unexpired, find_active of that pair returns an active record of the pair;
\* ending or updating another session of the pair does not hide it.
C38_FindActiveFindsLiveRecord ==
    \A m \in Msisdns, ty \in Types :
        liveRecords(redis, m, ty, now) # {}
            => LET r == getActiveSessionByMsisdn(redis, m, ty, now, MaxStack)
               IN /\ r.err = "none"
                  /\ r.ret # Null
                  /\ r.ret \in liveRecords(redis, m, ty, now)

\* C39: every entry of the secondary index refers to a record that is
\* active and has the entry's subscriber and channel; an ended record never
\* gets its entry back.
C39_IndexRefersToActiveRecord ==
    \A p \in DOMAIN redis.index :
        redis.index[p] # Null
            => /\ redis.index[p] \in DOMAIN redis.objs
               /\ redis.objs[redis.index[p]].isActive
               /\ redis.objs[redis.index[p]].msisdn = p[1]
               /\ redis.objs[redis.index[p]].type = p[2]

\* ------------------------------------ claims on results and variables ---
\* the nodes that got a result in the step from e to f
recordedIn(e, f) ==
    {n \in DOMAIN e.nodeResults : Len(f.nodeResults[n]) = Len(e.nodeResults[n]) + 1}

dispatchesOf(e, id) == {i \in DOMAIN e.dispatched : e.dispatched[i].nodeId = id}

\* C34: when a node is dispatched, every source of its incoming edges has
\* its final result: the source has a result (a skipped one when it is
\* disabled), every attempt of the source has settled, and the source is
\* not dispatched again later; a node is dispatched once per attempt,
\* whatever the number of its incoming edges.
C34_DispatchedAfterPredecessorsSettled ==
    \A i \in DOMAIN ex.dispatched :
        LET node == env.graph.nodes[ex.dispatched[i].nodeId]
        IN /\ \A k \in DOMAIN node.incomingEdges :
                 LET source == node.incomingEdges[k].source
                 IN source # env.graph.trigger
                       => /\ Len(ex.nodeResults[source]) > 0
                          /\ \A j \in dispatchesOf(ex, source) : j < i
                          /\ IF env.graph.nodes[source].disabled
                             THEN /\ dispatchesOf(ex, source) = {}
                                  /\ ex.nodeResults[source][1].status = "skipped"
                             ELSE Len(ex.nodeResults[source])
                                     = Cardinality(dispatchesOf(ex, source))
           /\ \A j \in dispatchesOf(ex, node.id) :
                 j # i => ex.dispatched[j].attempt # ex.dispatched[i].attempt

\* a node with two incoming edges was dispatched behind a skipped source, or
\* a node was dispatched behind a source that was retried
C34_Witness ==
    \E i \in DOMAIN ex.dispatched :
        LET node == env.graph.nodes[ex.dispatched[i].nodeId]
        IN \/ /\ Len(node.incomingEdges) >= 2
              /\ \E k \in DOMAIN node.incomingEdges :
                    LET source == node.incomingEdges[k].source
                    IN /\ source # env.graph.trigger
                       /\ ex.nodeResults[source][1].status = "skipped"
           \/ \E k \in DOMAIN node.incomingEdges :
                 LET source == node.incomingEdges[k].source
                 IN /\ source # env.graph.trigger
                    /\ Len(ex.nodeResults[source]) >= 2

\* C35: the input a handler is called with holds, for each incoming edge
\* whose source's final result is success, the source's output value for
\* the edge's source_handle key, or every output key of the source when the
\* edge has no source_handle.
C35_InputHoldsPredecessorOutputs ==
    ex.pc = "handler"
        => \A k \in DOMAIN currentNode.incomingEdges :
              LET edge == currentNode.incomingEdges[k]
                  sourceResults == ex.nodeResults[edge.source]
                  final == sourceResults[1]
              IN (edge.source # env.graph.trigger /\ Len(sourceResults) > 0
                     /\ final.status = "success")
                    => IF edge.sourceHandle # ""
                       THEN /\ edge.sourceHandle \in DOMAIN ex.input
                            /\ ex.input[edge.sourceHandle]
                                  = IF edge.sourceHandle \in DOMAIN final.output
                                    THEN final.output[edge.sourceHandle]
                                    ELSE Undefined
                       ELSE \A key \in DOMAIN final.output :
                               /\ key \in DOMAIN ex.input
                               /\ ex.input[key] = final.output[key]

RECURSIVE reachedAround(_, _, _)
\* the nodes the edges of a graph lead to from the nodes of S when the edges
\* that leave node failed are left out, those on its error handle excepted
reachedAround(graph, failed, S) ==
    LET next == S \cup {id \in DOMAIN graph.nodes :
                          \E k \in DOMAIN graph.nodes[id].incomingEdges :
                             LET edge == graph.nodes[id].incomingEdges[k]
                             IN /\ edge.source \in S
                                /\ edge.source = failed
                                      => edge.sourceHandle = "error"}
    IN IF next = S THEN S ELSE reachedAround(graph, failed, next)

\* the last result of node id is an error and no retry of it is pending
failedFinally(e, id) ==
    /\ Len(e.nodeResults[id]) > 0
    /\ e.nodeResults[id][1].status = "error"
    /\ \/ e.pc = "done"
       \/ e.pos > Len(env.graph.executionOrder)
       \/ env.graph.executionOrder[e.pos] # id

\* C40: once the final result of a node is error, no node that the trigger
\* reaches only through that node is dispatched, unless an edge on the
\* node's error handle leads to it.
C40_NothingDispatchedBehindFailedNode ==
    \A failed \in DOMAIN env.graph.nodes :
        failedFinally(ex, failed)
            => \A i \in DOMAIN ex.dispatched :
                  (\A j \in dispatchesOf(ex, failed) : j < i)
                     => ex.dispatched[i].nodeId
                           \in reachedAround(env.graph, failed, {env.graph.trigger})

\* --------------------------- POST /execute and GET /executions, logged ----
MaxRequests == 2                \* execute requests of one behaviour
WorkflowIds == {"w1", "w2"}     \* workflow.metadata.workflowId

\* InMemoryLogger.logExecutionStart: executionLogs.set(executionId, log); a
\* key the Map already holds keeps its place and gets the new log
logExecutionStart(logs, executionId, workflowId, t) ==
    LET executionLog == [executionId |-> executionId, workflowId |-> workflowId,
                         status |-> "running", startedAt |-> t]
    IN IF \E i \in DOMAIN logs : logs[i].executionId = executionId
       THEN [i \in DOMAIN logs |-> IF logs[i].executionId = executionId
                                   THEN executionLog ELSE logs[i]]
       ELSE Append(logs, executionLog)

\* InMemoryLogger.logExecutionEnd: `if (executionLog)` sets its status
logExecutionEnd(logs, executionId, status) ==
    [i \in DOMAIN logs |-> IF logs[i].executionId = executionId
                           THEN [logs[i] EXCEPT !.status = status]
                           ELSE logs[i]]

RECURSIVE sortByStartedAt(_)
\* results.sort((a, b) => b.startedAt - a.startedAt): descending and stable
sortByStartedAt(results) ==
    IF results = <<>> THEN <<>>
    ELSE LET first == Head(results)
             rest == sortByStartedAt(Tail(results))
             later == SelectSeq(rest, LAMBDA log : log.startedAt > first.startedAt)
             others == SelectSeq(rest, LAMBDA log : log.startedAt <= first.startedAt)
         IN later \o <<first>> \o others

\* InMemoryLogger.queryExecutionLogs with the workflowId and status filters;
\* Null stands for a filter that is not given
queryExecutionLogs(logs, workflowId, status) ==
    LET byWorkflow == IF workflowId # Null
                      THEN SelectSeq(logs, LAMBDA log : log.workflowId = workflowId)
                      ELSE logs
        byStatus == IF status # Null
                    THEN SelectSeq(byWorkflow, LAMBDA log : log.status = status)
                    ELSE byWorkflow
    IN sortByStartedAt(byStatus)

\* the workflows of the execute requests: three that compile (the trigger
\* alone, an SMS with one retry behind the trigger, a USSD session that is
\* ended) and two that do not (a USSD session that is never ended, a body
\* the schema rejects)
ApiDescriptions ==
    {[schemaValid |-> TRUE, trigger |-> [id |-> "t", type |-> "SMS_RECEIVED"],
      nodes |-> <<DescNode("t", "SMS_RECEIVED", TRUE)>>, edges |-> <<>>],
     [schemaValid |-> TRUE, trigger |-> [id |-> "t", type |-> "SMS_RECEIVED"],
      nodes |-> <<DescNode("t", "SMS_RECEIVED", TRUE),
                  [DescNode("a", "SEND_SMS", TRUE) EXCEPT !.retry = OneRetry]>>,
      edges |-> <<SpecEdge("t", "a", "")>>],
     [schemaValid |-> TRUE, trigger |-> [id |-> "t", type |-> "USSD_SESSION_START"],
      nodes |-> <<DescNode("t", "USSD_SESSION_START", TRUE),
                  DescNode("a", "SESSION_END", TRUE)>>,
      edges |-> <<SpecEdge("t", "a", "")>>],
     [schemaValid |-> TRUE, trigger |-> [id |-> "t", type |-> "USSD_SESSION_START"],
      nodes |-> <<DescNode("t", "USSD_SESSION_START", TRUE),
                  DescNode("a", "SEND_SMS", TRUE)>>,
      edges |-> <<SpecEdge("t", "a", "")>>],
     [schemaValid |-> FALSE, trigger |-> [id |-> "t", type |-> "SMS_RECEIVED"],
      nodes |-> <<DescNode("t", "SMS_RECEIVED", TRUE)>>, edges |-> <<>>]}

\* the handler of POST /execute that logs the execution start before it
\* looks at the compile result
executeRoute_logFirst(st, logs, workflow, workflowId, sessionId, msisdn, uuid, t) ==
    LET compileResult == compileWorkflow(workflow)
        started == logExecutionStart(logs, "exec_" \o ToString(t), workflowId, t)
        r == getOrCreateSession(st, sessionId, compileResult.graph.requiresSession,
                                workflow.trigger.type, msisdn, uuid, t, MaxStack)
    IN IF ~compileResult.success
       THEN [httpStatus |-> 400, errors |-> compileResult.errors, st |-> st,
             logs |-> started, session |-> Null, graph |-> NoGraph]
       ELSE IF r.err # "none"
            THEN [httpStatus |-> 500, errors |-> {}, st |-> r.st, logs |-> logs,
                  session |-> Null, graph |-> NoGraph]
       ELSE [httpStatus |-> 0, errors |-> {}, st |-> r.st, logs |-> started,
             session |-> r.ret, graph |-> compileResult.graph]

\* the handler of POST /execute up to `await executionEngine.execute(...)`:
\* 400 with the compile errors, 500 when the Session Store throws, else the
\* session, the log of the execution start and the graph to execute
\* (httpStatus 0: no response yet)
executeRoute(st, logs, workflow, workflowId, sessionId, msisdn, uuid, t) ==
    LET compileResult == compileWorkflow(workflow)
        r == getOrCreateSession(st, sessionId, compileResult.graph.requiresSession,
                                workflow.trigger.type, msisdn, uuid, t, MaxStack)
    IN IF ~compileResult.success
       THEN [httpStatus |-> 400, errors |-> compileResult.errors, st |-> st,
             logs |-> logs, session |-> Null, graph |-> NoGraph]
       ELSE IF r.err # "none"
            THEN [httpStatus |-> 500, errors |-> {}, st |-> r.st, logs |-> logs,
                  session |-> Null, graph |-> NoGraph]
       ELSE [httpStatus |-> 0, errors |-> {}, st |-> r.st,
             logs |-> logExecutionStart(logs, "exec_" \o ToString(t), workflowId, t),
             session |-> r.ret, graph |-> compileResult.graph]

\* res.status(...).json(...) of an execute request
ApiResponse(workflow, workflowId, httpStatus, errors, executionId, status) ==
    [workflow |-> workflow, workflowId |-> workflowId, httpStatus |-> httpStatus,
     errors |-> errors, executionId |-> executionId, status |-> status]

\* req.body.options: absent, or asking for retries
ApiOptions == {[enableRetries |-> FALSE, maxExecutionTimeMs |-> 0],
               [enableRetries |-> TRUE, maxExecutionTimeMs |-> 0]}

\* POST /execute arrives; calls holds the responses sent so far
ApiExecute ==
    /\ ex.pc = "request"
    /\ Len(calls) < MaxRequests
    /\ \E workflow \in ApiDescriptions, workflowId \in WorkflowIds,
          sessionId \in {Null, "s1"}, msisdn \in Msisdns,
          options \in ApiOptions, uuid \in SessionIds \ DOMAIN redis.objs :
          LET r == executeRoute(redis, executionLogs, workflow, workflowId,
                                sessionId, msisdn, uuid, now)
          IN /\ redis' = r.st
             /\ executionLogs' = r.logs
             /\ IF r.httpStatus = 0
                THEN /\ env' = [env EXCEPT !.graph = r.graph, !.session = r.session,
                                           !.options = options,
                                           !.workflow = workflow,
                                           !.workflowId = workflowId]
                     /\ ex' = [NoEx EXCEPT !.pc = "ready", !.uuids = ex.uuids,
                                           !.nodeResults =
                                               [n \in DOMAIN r.graph.nodes |-> <<>>]]
                     /\ calls' = calls
                ELSE /\ calls' = Append(calls, ApiResponse(workflow, workflowId,
                                                           r.httpStatus, r.errors,
                                                           "", ""))
                     /\ UNCHANGED <<env, ex>>
    /\ last' = NoCall
    /\ UNCHANGED <<now, heap>>

\* execute() has returned: logExecutionEnd and res.json
ApiRespond ==
    /\ ex.pc = "done"
    /\ executionLogs' = logExecutionEnd(executionLogs, ex.executionId,
                                        ex.result.status)
    /\ calls' = Append(calls, ApiResponse(env.workflow, env.workflowId, 200, {},
                                          ex.executionId, ex.result.status))
    /\ ex' = [NoEx EXCEPT !.pc = "request", !.uuids = ex.uuids]
    /\ UNCHANGED <<now, redis, last, env, heap>>

\* GET /executions?workflowId=..&status=.. between two execute requests
ApiExecutions ==
    /\ ex.pc = "request"
    /\ \E workflowId \in WorkflowIds, status \in {"completed", "failed"} :
          last' = [op |-> "executions", workflowId |-> workflowId,
                   status |-> status,
                   ret |-> queryExecutionLogs(executionLogs, workflowId, status)]
    /\ UNCHANGED <<now, redis, calls, env, ex, executionLogs, heap>>

\* a millisecond passes between two requests
ApiTick ==
    /\ ex.pc = "request"
    /\ now < MaxTime
    /\ now' = now + 1
    /\ last' = NoCall
    /\ UNCHANGED <<redis, calls, env, ex, executionLogs, heap>>

InitApi ==
    /\ now = 0
    /\ executionLogs = NoExecutionLogs
    /\ heap = NoHeap
    /\ redis = EmptyStore
    /\ last = NoCall
    /\ calls = <<>>
    /\ env = [graph |-> NoGraph,
              options |-> [enableRetries |-> FALSE, maxExecutionTimeMs |-> 0],
              registered |-> ATExecutors,
              triggerPayload |-> [k \in {"amount"} |-> 50],
              session |-> Null, workflow |-> NoGraph, workflowId |-> ""]
    /\ ex = [NoEx EXCEPT !.pc = "request"]

NextApi ==
    \/ ApiExecute
    \/ ApiRespond
    \/ ApiExecutions
    \/ ApiTick
    \/ ExecStart
    \/ LoopStep
    \/ HandlerReturns
    \/ HandlerThrows
    \/ SleepDone

SpecApi == InitApi /\ [][NextApi]_vars

\* the execute requests of workflow id that were answered with status
completedCalls(id) ==
    {i \in DOMAIN calls : calls[i].workflowId = id /\ calls[i].status = "completed"}

\* C31: after any sequence of execute requests, the query for the completed
\* executions of workflow W returns exactly one log per earlier invocation
\* of W that returned completed, each under the execution id that was
\* returned to the caller, the newest first.
C31_QueryReturnsCompletedInvocations ==
    (last.op = "executions" /\ last.status = "completed")
        => /\ Len(last.ret) = Cardinality(completedCalls(last.workflowId))
           /\ \A i \in completedCalls(last.workflowId) :
                 Cardinality({k \in DOMAIN last.ret :
                                 last.ret[k].executionId = calls[i].executionId}) = 1
           /\ \A k \in DOMAIN last.ret :
                 /\ last.ret[k].workflowId = last.workflowId
                 /\ last.ret[k].status = "completed"
           /\ \A k, l \in DOMAIN last.ret :
                 k < l => last.ret[k].startedAt >= last.ret[l].startedAt

\* C32: when the workflow of an execute request does not compile, the
\* request is answered 400 with the compile errors, and no handler is
\* dispatched, no session is created and no execution is started.
C32_CompileFailureStartsNothing ==
    [][(Len(calls') = Len(calls) + 1
          /\ ~compileWorkflow(calls'[Len(calls')].workflow).success)
        => /\ calls'[Len(calls')].httpStatus = 400
           /\ calls'[Len(calls')].errors
                 = compileWorkflow(calls'[Len(calls')].workflow).errors
           /\ calls'[Len(calls')].errors # {}
           /\ calls'[Len(calls')].executionId = ""
           /\ redis' = redis
           /\ executionLogs' = executionLogs
           /\ ex' = ex]_vars

\* a USSD workflow that never ends its session was refused: no session, no
\* execution log and no engine state exist
C32_Witness ==
    /\ \E i \in DOMAIN calls :
          /\ calls[i].httpStatus = 400
          /\ calls[i].workflow.trigger.type = "USSD_SESSION_START"
          /\ calls[i].errors # {}
    /\ DOMAIN redis.objs = {}
    /\ executionLogs = NoExecutionLogs
    /\ ex.pc = "request"
    /\ ex.uuids = 0

\* ------------------------------ two execute() calls on one compiled graph --
\* calls holds the two invocations.  What an invocation holds by reference
\* (the graph and the trigger payload it was given, its variables object,
\* its Map of node results) lies in heap; lookups go through the reference.
Invocations == {1, 2}

\* execute() whose states share one Map of node results
newExecution_sharedResults(i, issued) ==
    [pc |-> "loop", pos |-> 1, nodeResults |-> <<>>, variables |-> EmptyData,
     input |-> EmptyData, dispatched |-> <<>>, sleeps |-> <<>>, elapsed |-> 0,
     attempt |-> 0, delay |-> 0, inRetry |-> FALSE, result |-> NoResult,
     executionId |-> uuidv4(issued), uuids |-> issued + 1,
     graphRef |-> "graph", triggerPayloadRef |-> "triggerPayload",
     variablesRef |-> "variables" \o ToString(i),
     nodeResultsRef |-> "nodeResults1"]

\* execute(): the context and the state that call i builds: a new id, the
\* graph and the payload by reference, a new variables object, a new Map
newExecution(i, issued) ==
    [pc |-> "loop", pos |-> 1, nodeResults |-> <<>>, variables |-> EmptyData,
     input |-> EmptyData, dispatched |-> <<>>, sleeps |-> <<>>, elapsed |-> 0,
     attempt |-> 0, delay |-> 0, inRetry |-> FALSE, result |-> NoResult,
     executionId |-> uuidv4(issued), uuids |-> issued + 1,
     graphRef |-> "graph", triggerPayloadRef |-> "triggerPayload",
     variablesRef |-> "variables" \o ToString(i),
     nodeResultsRef |-> "nodeResults" \o ToString(i)]

\* the ExecutionState of an invocation, its objects read through the heap
stateOf(invocation) ==
    [invocation EXCEPT !.variables = heap[invocation.variablesRef],
                       !.nodeResults = heap[invocation.nodeResultsRef]]

\* the ids handed out so far
issuedIds == Cardinality({i \in Invocations : calls[i].pc # "ready"})

\* a step of invocation i that leads its state to e: state.context.variables
\* is assigned a new object, the Map of node results is changed in place
Continue(i, e) ==
    /\ calls' = [calls EXCEPT ![i] = [e EXCEPT !.variables = EmptyData,
                                               !.nodeResults = <<>>,
                                               !.variablesRef =
                                                   "variables" \o ToString(i)]]
    /\ heap' = [heap EXCEPT !["variables" \o ToString(i)] = e.variables,
                            ![calls[i].nodeResultsRef] = e.nodeResults]
    /\ UNCHANGED <<now, redis, last, env, ex, executionLogs>>

PairStart(i) ==
    /\ calls[i].pc = "ready"
    /\ LET e == newExecution(i, issuedIds)
       IN /\ calls' = [calls EXCEPT ![i] = e]
          /\ heap' = [heap EXCEPT ![e.variablesRef] = heap[e.triggerPayloadRef],
                                  ![e.nodeResultsRef] =
                                      [n \in DOMAIN env.graph.nodes |-> <<>>]]
    /\ UNCHANGED <<now, redis, last, env, ex, executionLogs>>

PairLoopStep(i) ==
    /\ calls[i].pc = "loop"
    /\ Continue(i, loopIteration(stateOf(calls[i])))

PairHandlerReturns(i) ==
    /\ calls[i].pc = "handler"
    /\ LET e == stateOf(calls[i])
       IN \E outcome \in HandlerOutcomes(nodeAt(e)), duration \in HandlerDurations :
             Continue(i, endStep(e, nodeAt(e), outcome, duration))

PairHandlerThrows(i) ==
    /\ calls[i].pc = "handler"
    /\ LET e == stateOf(calls[i])
       IN \E duration \in HandlerDurations :
             Continue(i, endStep(e, nodeAt(e), thrownResult(e, nodeAt(e)), duration))

PairSleepDone(i) ==
    /\ calls[i].pc = "sleep"
    /\ LET e == stateOf(calls[i])
       IN Continue(i, beginStep([e EXCEPT !.elapsed = @ + e.delay], nodeAt(e),
                                e.attempt))

\* trigger -> condition -> send_sms on the true branch
ChainWorkflow ==
    [trigger |-> "t",
     nodes |-> <<SpecNode("t", "SMS_RECEIVED", NoRetry, FALSE),
                 SpecNode("a", "CONDITION", NoRetry, FALSE),
                 SpecNode("b", "SEND_SMS", RateLimitRetry, FALSE)>>,
     edges |-> <<SpecEdge("t", "a", ""), SpecEdge("a", "b", "true")>>]

PairWorkflows == {ChainWorkflow, RetryWorkflow(OneRetry)}

InitPair ==
    /\ now = 0
    /\ executionLogs = NoExecutionLogs
    /\ redis = EmptyStore
    /\ last = NoCall
    /\ ex = NoEx
    /\ \E w \in PairWorkflows, o \in ApiOptions :
          env = [graph |-> buildExecutionGraph(w), options |-> o,
                 registered |-> ATExecutors \cup {"CONDITION", "SESSION_END"},
                 triggerPayload |-> [k \in {"amount"} |-> 50], session |-> "s1"]
    /\ calls = [i \in Invocations |->
                   [newExecution(i, 0) EXCEPT !.pc = "ready", !.executionId = "",
                                              !.uuids = 0]]
    /\ heap = [ref \in {"graph", "triggerPayload", "variables1", "variables2",
                        "nodeResults1", "nodeResults2"} |->
                  IF ref = "graph" THEN env.graph
                  ELSE IF ref = "triggerPayload" THEN env.triggerPayload
                  ELSE IF ref \in {"variables1", "variables2"} THEN EmptyData
                  ELSE [n \in DOMAIN env.graph.nodes |-> <<>>]]

NextPair ==
    \E i \in Invocations :
        \/ PairStart(i)
        \/ PairLoopStep(i)
        \/ PairHandlerReturns(i)
        \/ PairHandlerThrows(i)
        \/ PairSleepDone(i)

SpecPair == InitPair /\ [][NextPair]_vars

\* the node results of e are those of its own handler calls and skips
ownNodeResults(e) ==
    \A n \in DOMAIN e.nodeResults :
        Len(e.nodeResults[n])
            = IF env.graph.nodes[n].disabled
              THEN (IF \E p \in positionsOf(env.graph.executionOrder, n) : p < e.pos
                    THEN 1 ELSE 0)
              ELSE Cardinality(dispatchesOf(e, n))
                      - (IF e.pc = "handler" /\ nodeAt(e).id = n THEN 1 ELSE 0)

\* the variables of e are the payload and the outputs of its own successes
ownVariables(e, payload) ==
    LET succeeded == {n \in DOMAIN e.nodeResults :
                         \E k \in DOMAIN e.nodeResults[n] :
                            e.nodeResults[n][k].status = "success"}
        outputKeys == UNION {UNION {DOMAIN e.nodeResults[n][k].output :
                                       k \in DOMAIN e.nodeResults[n]} :
                                n \in succeeded}
    IN /\ DOMAIN e.variables
             = DOMAIN payload \cup outputKeys \cup {"node_" \o n : n \in succeeded}
       /\ \A key \in DOMAIN payload \ outputKeys : e.variables[key] = payload[key]
       /\ \A n \in succeeded :
             \E k \in DOMAIN e.nodeResults[n] :
                e.variables["node_" \o n] = e.nodeResults[n][k].output

\* C37: two invocations that run concurrently on one compiled graph do not
\* see each other's variables or node results, have distinct execution
\* ids, and leave the graph and the trigger payload as they were given.
C37_ConcurrentInvocationsIsolated ==
    \A i \in Invocations :
        calls[i].pc # "ready"
            => /\ ownNodeResults(stateOf(calls[i]))
               /\ ownVariables(stateOf(calls[i]), env.triggerPayload)
               /\ heap[calls[i].graphRef] = env.graph
               /\ heap[calls[i].triggerPayloadRef] = env.triggerPayload
               /\ \A j \in Invocations \ {i} :
                     calls[j].pc # "ready"
                        => calls[j].executionId # calls[i].executionId

\* both invocations are under way, one awaits a handler, and they hold
\* different variables and different node results
C37_Witness ==
    /\ calls[1].pc = "handler"
    /\ calls[2].pc \in {"loop", "handler", "sleep"}
    /\ heap[calls[1].variablesRef] # heap[calls[2].variablesRef]
    /\ heap[calls[1].nodeResultsRef] # heap[calls[2].nodeResultsRef]
    /\ \E n \in DOMAIN env.graph.nodes :
          /\ Len(heap[calls[1].nodeResultsRef][n]) > 0
          /\ Len(heap[calls[2].nodeResultsRef][n]) > 0
====
